---- MODULE Spec2Model ----
(***************************************************************************)
(* A model of the OCR pipeline of Ollama_deepseekOCR_forPDF:                *)
(*   - OllamaHandler.parse_response  (src/ocr_engine.py)  as operators,    *)
(*   - OllamaHandler.perform_ocr     (src/ocr_engine.py)  as the streaming *)
(*     state machine of specification SpecOcr,                             *)
(*   - PDFProcessor.process_pdf      (src/pdf_processor.py) as the page    *)
(*     loop of specification Spec, with App.remove_item (src/main.py)      *)
(*     setting the cancellation flag beside it,                            *)
(*   - the layout of one region (src/pdf_processor.py, lines 201-278) step *)
(*     by step as specification SpecFont,                                  *)
(*   - OllamaHandler.check_connection (src/ocr_engine.py) as specification *)
(*     SpecConn,                                                           *)
(*   - the page-wide layout of coordinate-less text (src/pdf_processor.py, *)
(*     lines 185-198) statement by statement as specification SpecPage,    *)
(*   - the processing queue of the window (src/main.py) as specification   *)
(*     SpecUi, and with fair scheduling as SpecUiFair.                     *)
(*                                                                         *)
(* Text is a sequence of lexemes (one-element strings and the markup       *)
(* delimiters); a numeral is one lexeme.                                   *)
(***************************************************************************)
EXTENDS Integers, Sequences, FiniteSets, TLC

(***************************************************************************)
(* Lexemes of a raw recognition response.                                  *)
(***************************************************************************)
REF == "<|ref|>"
EREF == "<|/ref|>"
DET == "<|det|>"
EDET == "<|/det|>"
LB == "[["
RB == "]]"
COMMA == ","
SP == " "
NL == "\n"

\* \s of the pattern and the characters str.strip() removes
IsWs(t) == t \in {SP, NL}

\* '.' of the pattern: any character but a newline (no DOTALL flag)
IsDot(t) == t # NL

\* the numerals float() is applied to, with their values
Numerals == {"0", "100", "200", "300", "500", "800", "1000", "1200"}

NumeralValue(t) ==
    CASE t = "0" -> 0
      [] t = "100" -> 100
      [] t = "200" -> 200
      [] t = "300" -> 300
      [] t = "500" -> 500
      [] t = "800" -> 800
      [] t = "1000" -> 1000
      [] t = "1200" -> 1200

SubSeqFrom(s, a, b) == IF a > b THEN << >> ELSE SubSeq(s, a, b)

RECURSIVE LStrip(_)
LStrip(s) == IF s # << >> /\ IsWs(Head(s)) THEN LStrip(Tail(s)) ELSE s

RECURSIVE RStrip(_)
RStrip(s) ==
    IF s # << >> /\ IsWs(s[Len(s)]) THEN RStrip(SubSeq(s, 1, Len(s) - 1)) ELSE s

\* only the leading whitespace is removed
StripLeadingOnly(s) == LStrip(s)

\* str.strip()
Strip(s) == RStrip(LStrip(s))

(***************************************************************************)
(* The pattern of parse_response,                                          *)
(*   <|ref|> \s* (type: .*?) \s* <|/ref|> \s* <|det|> \s* [[ (coords: .*?) *)
(*   ]] \s* <|/det|>                                                       *)
(* matched the way a backtracking matcher does: positions are 1-based, an  *)
(* end position is the position after the last lexeme of the match.        *)
(***************************************************************************)

\* greedy \s* in front of a literal: the first position >= p that is not whitespace
RECURSIVE SkipWs(_, _)
SkipWs(text, p) ==
    IF p <= Len(text) /\ IsWs(text[p]) THEN SkipWs(text, p + 1) ELSE p

At(text, p) == IF p >= 1 /\ p <= Len(text) THEN text[p] ELSE "<eof>"

\* the positions r of a "]]" that can close a coords group opened at cs:
\* coords (cs..r-1) holds no newline and \s* <|/det|> follows
CoordsEnds(text, cs) ==
    { r \in cs..Len(text) :
        /\ text[r] = RB
        /\ \A k \in cs..(r - 1) : IsDot(text[k])
        /\ At(text, SkipWs(text, r + 1)) = EDET }

Min(S) == CHOOSE x \in S : \A y \in S : x <= y

\* the tail of the pattern from a <|/ref|> at position p:
\* <<>> when it does not match, else <<coords start, coords end, match end>>
TailMatch(text, p) ==
    IF At(text, p) # EREF THEN << >>
    ELSE LET d == SkipWs(text, p + 1) IN
         IF At(text, d) # DET THEN << >>
         ELSE LET b == SkipWs(text, d + 1) IN
              IF At(text, b) # LB THEN << >>
              ELSE LET ends == CoordsEnds(text, b + 1) IN
                   IF ends = {} THEN << >>
                   ELSE LET r == Min(ends) IN
                        <<b + 1, r, SkipWs(text, r + 1) + 1>>

\* lexemes i+1..p-1 can be consumed by \s* .*? \s*: after the leading
\* whitespace, a newline is followed by whitespace only
TypeSpan(text, i, p) ==
    \A k \in SkipWs(text, i + 1)..(p - 1) :
        text[k] = NL => \A j \in (k + 1)..(p - 1) : IsWs(text[j])

\* the match starting at position i, or <<>>: the lazy type group takes the
\* first <|/ref|> after which the rest of the pattern matches
MatchAt(text, i) ==
    IF At(text, i) # REF THEN << >>
    ELSE LET ps == { p \in (i + 1)..Len(text) :
                        TypeSpan(text, i, p) /\ TailMatch(text, p) # << >> } IN
         IF ps = {} THEN << >>
         ELSE LET t == TailMatch(text, Min(ps)) IN
              [start |-> i, end |-> t[3], cs |-> t[1], ce |-> t[2]]

\* pattern.finditer: leftmost, non-overlapping matches from position pos on
RECURSIVE FindIter(_, _)
FindIter(text, pos) ==
    IF pos > Len(text) THEN << >>
    ELSE LET m == MatchAt(text, pos) IN
         IF m = << >> THEN FindIter(text, pos + 1)
         ELSE <<m>> \o FindIter(text, m.end)

\* coords_str.split(','): the pieces between commas
RECURSIVE SplitComma(_)
SplitComma(s) ==
    IF \A k \in 1..Len(s) : s[k] # COMMA THEN <<s>>
    ELSE LET c == Min({ k \in 1..Len(s) : s[k] = COMMA }) IN
         <<SubSeqFrom(s, 1, c - 1)>> \o SplitComma(SubSeqFrom(s, c + 1, Len(s)))

\* float(x.strip()) succeeds: the stripped piece is one numeral
IsFloat(piece) == Len(Strip(piece)) = 1 /\ Strip(piece)[1] \in Numerals

FloatOf(piece) == NumeralValue(Strip(piece)[1])

\* v / 1000.0, kept as the fraction it is
Div1000(v) == [num |-> v, den |-> 1000]

\* one iteration of the loop of parse_response for match i of matches:
\* <<>> when the match is skipped (float() raised, or not four numbers),
\* else the one region appended
ParseMatch(text, matches, i) ==
    LET m == matches[i]
        pieces == SplitComma(SubSeqFrom(text, m.cs, m.ce - 1))
    IN  IF \E k \in 1..Len(pieces) : ~IsFloat(pieces[k]) THEN << >>
        ELSE IF Len(pieces) # 4 THEN << >>
        ELSE LET end_index == IF i + 1 <= Len(matches)
                              THEN matches[i + 1].start - 1
                              ELSE Len(text)
                 content == Strip(SubSeqFrom(text, m.end, end_index))
             IN  <<[bbox |-> <<Div1000(FloatOf(pieces[1])), Div1000(FloatOf(pieces[2])),
                              Div1000(FloatOf(pieces[3])), Div1000(FloatOf(pieces[4]))>>,
                    text |-> content]>>

\* a loop that gives up at the first match it has to skip
RECURSIVE ParseFromStopsAtSkipped(_, _, _)
ParseFromStopsAtSkipped(text, matches, i) ==
    IF i > Len(matches) THEN << >>
    ELSE IF ParseMatch(text, matches, i) = << >> THEN << >>
    ELSE ParseMatch(text, matches, i) \o ParseFromStopsAtSkipped(text, matches, i + 1)

RECURSIVE ParseFrom(_, _, _)
ParseFrom(text, matches, i) ==
    IF i > Len(matches) THEN << >>
    ELSE ParseMatch(text, matches, i) \o ParseFrom(text, matches, i + 1)

\* OllamaHandler.parse_response (perform_ocr returns a str, so the
\* isinstance(text, list) shortcut of line 172 is never taken)
parse_response(text) == ParseFrom(text, FindIter(text, 1), 1)

\* line 183: float() raises ValueError for match i (a piece that is no number)
FloatRaises(text, matches, i) ==
    LET pieces == SplitComma(SubSeqFrom(text, matches[i].cs, matches[i].ce - 1)) IN
    \E k \in 1..Len(pieces) : ~IsFloat(pieces[k])

\* a handler for TypeError only
ExceptCatchesTypeErrorOnly(kind) == kind = "TypeError"

\* line 203: the bare except catches whatever the loop body raised
ExceptCatches(kind) == TRUE

\* an exception leaves parse_response: the only statement outside the try is
\* finditer on a str, which does not raise
ParseRaises(text) ==
    LET matches == FindIter(text, 1) IN
    \E i \in 1..Len(matches) :
        FloatRaises(text, matches, i) /\ ~ExceptCatches("ValueError")

(***************************************************************************)
(* Page layout (process_pdf, part 3).  Lengths are in thousandths of a     *)
(* point; one pixel of the background image is one point.                  *)
(***************************************************************************)

\* len() of one lexeme in characters
CharLen(t) ==
    CASE t \in {REF, DET} -> 7
      [] t \in {EREF, EDET} -> 8
      [] t \in {LB, RB} -> 2
      [] t \in {"100", "200", "300", "500", "800"} -> 3
      [] t \in {"1000", "1200"} -> 4
      [] OTHER -> 1

RECURSIVE StrLen(_)
StrLen(s) == IF s = << >> THEN 0 ELSE CharLen(Head(s)) + StrLen(Tail(s))

\* str.split(sep) for a one-lexeme separator
RECURSIVE SplitOn(_, _)
SplitOn(s, sep) ==
    IF \A k \in 1..Len(s) : s[k] # sep THEN <<s>>
    ELSE LET c == Min({ k \in 1..Len(s) : s[k] = sep }) IN
         <<SubSeqFrom(s, 1, c - 1)>> \o SplitOn(SubSeqFrom(s, c + 1, Len(s)), sep)

\* str.split('\n\n'): cut at each leftmost pair of adjacent newlines
RECURSIVE SplitBlocks(_)
SplitBlocks(s) ==
    LET cuts == { k \in 1..(Len(s) - 1) : s[k] = NL /\ s[k + 1] = NL } IN
    IF cuts = {} THEN <<s>>
    ELSE LET c == Min(cuts) IN
         <<SubSeqFrom(s, 1, c - 1)>> \o SplitBlocks(SubSeqFrom(s, c + 2, Len(s)))

\* str.split(): the maximal runs of non-whitespace
RECURSIVE Words(_)
Words(s) ==
    LET t == LStrip(s) IN
    IF t = << >> THEN << >>
    ELSE LET stops == { k \in 1..Len(t) : IsWs(t[k]) }
             e == IF stops = {} THEN Len(t) + 1 ELSE Min(stops)
         IN  <<SubSeqFrom(t, 1, e - 1)>> \o Words(SubSeqFrom(t, e, Len(t)))

\* pdfmetrics.stringWidth of the registered font: every glyph advances half an em
stringWidth(t, font_size) == StrLen(t) * (font_size \div 2)

\* reportlab's _simpleSplit: greedy word wrap of one line of text;
\* L the finished lines, O the words of the open line, w its width
RECURSIVE WrapWords(_, _, _, _, _, _)
WrapWords(words, mW, font_size, L, O, w) ==
    IF words = << >> THEN (IF O # << >> THEN Append(L, O) ELSE L)
    ELSE LET t == Head(words)
             ws == stringWidth(<<SP>>, font_size)
             lt == stringWidth(t, font_size)
         IN  IF w + ws + lt <= mW \/ O = << >>
             THEN WrapWords(Tail(words), mW, font_size, L,
                            (IF O = << >> THEN t ELSE O \o <<SP>> \o t), w + ws + lt)
             ELSE WrapWords(Tail(words), mW, font_size, Append(L, O), t, lt)

RECURSIVE WrapLines(_, _, _)
WrapLines(lines, mW, font_size) ==
    IF lines = << >> THEN << >>
    ELSE WrapWords(Words(Head(lines)), mW, font_size, << >>,
                   << >>, 0 - stringWidth(<<SP>>, font_size))
         \o WrapLines(Tail(lines), mW, font_size)

\* reportlab.lib.utils.simpleSplit(text, FONT_NAME, fontSize, maxWidth)
simpleSplit(text, font_size, maxWidth) ==
    IF maxWidth # 0 THEN WrapLines(SplitOn(text, NL), maxWidth, font_size)
    ELSE SplitOn(text, NL)

\* a normalized coordinate times a pixel length, in thousandths of a pixel
Scaled(frac, pixels) == frac.num * pixels * (1000 \div frac.den)

\* 1 - ymax, as a fraction
OneMinus(frac) == [num |-> frac.den - frac.num, den |-> frac.den]

\* floor of the square root, by bisection on lo..hi
RECURSIVE ISqrt(_, _, _)
ISqrt(x, lo, hi) ==
    IF lo >= hi THEN lo
    ELSE LET mid == (lo + hi + 1) \div 2 IN
         IF mid * mid <= x THEN ISqrt(x, mid, hi) ELSE ISqrt(x, lo, mid - 1)

\* math.sqrt((box_width * box_height) / (len(text) * 0.8)), to a tenth of a point
\* (the area is not negative here)
SqrtCharArea(box_width, box_height, n) ==
    LET area == (box_width \div 1000) * (box_height \div 1000) IN
    100 * ISqrt((area * 125) \div n, 0, 46340)

MinOf(a, b) == IF a <= b THEN a ELSE b
MaxOf(a, b) == IF a >= b THEN a ELSE b

\* the text is accepted when it is no higher than 1.2 times the box
FitsBoxTolerance(num_lines, font_size, box_height) ==
    num_lines * font_size * 12 <= 12 * box_height

\* lines 242-247: total_height <= box_height + (font_size * 0.2)
Fits(num_lines, font_size, box_height) ==
    num_lines * font_size * 12 <= 10 * box_height + font_size * 2

\* line 252: font_size *= 0.85
Shrunk(font_size) == (font_size * 85) \div 100

\* lines 229-231: the heuristic start, min(max(sqrt(...), 5), box_height)
StartFontSize(text, box_width, box_height) ==
    MinOf(MaxOf(SqrtCharArea(box_width, box_height, StrLen(text)), 5000), box_height)

\* the lines 238-256: the loop "for _ in range(5)", from iteration k on.
\* tested: the iteration that accepted; floored: the size was set to the minimum
RECURSIVE FontLoop(_, _, _, _, _)
FontLoop(text, box_width, box_height, font_size, k) ==
    IF k > 5
    THEN [font_size |-> font_size, final_lines |-> << >>, shrinks |-> 5,
          accepted |-> FALSE, floored |-> FALSE]
    ELSE LET lines == simpleSplit(text, font_size, box_width) IN
         IF Fits(Len(lines), font_size, box_height)
         THEN [font_size |-> font_size, final_lines |-> lines, shrinks |-> k - 1,
               accepted |-> TRUE, floored |-> FALSE]
         ELSE LET smaller == Shrunk(font_size) IN
              IF smaller < 4000
              THEN [font_size |-> 4000,
                    final_lines |-> simpleSplit(text, 4000, box_width),
                    shrinks |-> k, accepted |-> FALSE, floored |-> TRUE]
              ELSE FontLoop(text, box_width, box_height, smaller, k + 1)

\* the lines 228-260: the font size and the wrapped lines handed to rendering
FontSearch(text, box_width, box_height) ==
    LET start_font_size == StartFontSize(text, box_width, box_height)
        r == FontLoop(text, box_width, box_height, start_font_size, 1)
    IN  IF r.final_lines = << >>
        THEN [r EXCEPT !.final_lines = simpleSplit(text, r.font_size, box_width)]
        ELSE r

\* every wrapped line is emitted, however low its baseline
RECURSIVE RenderLinesAll(_, _, _, _, _, _)
RenderLinesAll(lines, x_pos, y_pos, current_y, font_size, src) ==
    IF lines = << >> THEN << >>
    ELSE <<[x |-> x_pos, y |-> current_y, font_size |-> font_size, src |-> src]>>
         \o RenderLinesAll(Tail(lines), x_pos, y_pos,
                           current_y - (font_size * 12) \div 10, font_size, src)

\* the lines 269-278: the text lines emitted for one region, top-down
RECURSIVE RenderLines(_, _, _, _, _, _)
RenderLines(lines, x_pos, y_pos, current_y, font_size, src) ==
    IF lines = << >> THEN << >>
    ELSE IF 2 * current_y < 2 * y_pos - font_size THEN << >>
    ELSE <<[x |-> x_pos, y |-> current_y, font_size |-> font_size, src |-> src]>>
         \o RenderLines(Tail(lines), x_pos, y_pos,
                        current_y - (font_size * 12) \div 10, font_size, src)

\* lines 211-212: the sides of the box of a region, in thousandths of a pixel
BoxWidth(item, img_width) ==
    Scaled(item.bbox[3], img_width) - Scaled(item.bbox[1], img_width)

BoxHeight(item, img_height) ==
    Scaled(item.bbox[4], img_height) - Scaled(item.bbox[2], img_height)

\* math.sqrt raises ValueError ("math domain error") on a negative area
NegativeArea(item, img_width, img_height) ==
    LET box_width == Scaled(item.bbox[3], img_width) - Scaled(item.bbox[1], img_width)
        box_height == Scaled(item.bbox[4], img_height) - Scaled(item.bbox[2], img_height)
    IN  (box_width < 0 /\ box_height > 0) \/ (box_width > 0 /\ box_height < 0)

\* the lines 201-278 for one region: the text lines it adds to the page
RegionLines(item, img_width, img_height, src) ==
    IF item.text = << >> THEN << >>
    ELSE LET x_pos == Scaled(item.bbox[1], img_width)
             y_pos == Scaled(OneMinus(item.bbox[4]), img_height)
             box_width == Scaled(item.bbox[3], img_width) - Scaled(item.bbox[1], img_width)
             box_height == Scaled(item.bbox[4], img_height) - Scaled(item.bbox[2], img_height)
             f == FontSearch(item.text, box_width, box_height)
         IN  RenderLines(f.final_lines, x_pos, y_pos,
                         y_pos + box_height - f.font_size, f.font_size, src)

\* the region that makes the layout raise, 0 when none does
FirstRaising(ocr_data, img_width, img_height) ==
    LET bad == { i \in 1..Len(ocr_data) :
                    ocr_data[i].text # << >>
                    /\ NegativeArea(ocr_data[i], img_width, img_height) } IN
    IF bad = {} THEN 0 ELSE Min(bad)

RECURSIVE RegionLayout(_, _, _, _)
RegionLayout(ocr_data, img_width, img_height, i) ==
    IF i > Len(ocr_data) THEN << >>
    ELSE RegionLines(ocr_data[i], img_width, img_height, i)
         \o RegionLayout(ocr_data, img_width, img_height, i + 1)

\* the lines 193-197: the lines of one block, from baseline current_y down
RECURSIVE BlockLines(_, _, _)
BlockLines(lines, current_y, src) ==
    IF lines = << >> THEN << >>
    ELSE IF current_y < 20000 THEN << >>
    ELSE <<[x |-> 20000, y |-> current_y, font_size |-> 10000, src |-> src]>>
         \o BlockLines(Tail(lines), current_y - 12000, src)

\* the lines 189-198: the page-wide layout of coordinate-less text
RECURSIVE PageLayout(_, _, _, _)
PageLayout(blocks, img_width, current_y, src) ==
    IF blocks = << >> THEN << >>
    ELSE IF Strip(Head(blocks)) = << >>
         THEN PageLayout(Tail(blocks), img_width, current_y, src + 1)
    ELSE LET wrapped_lines == simpleSplit(Strip(Head(blocks)), 10000,
                                          (img_width - 40) * 1000)
             drawn == BlockLines(wrapped_lines, current_y, src)
         IN  drawn \o PageLayout(Tail(blocks), img_width,
                                 current_y - 12000 * Len(drawn) - 5000, src + 1)

(***************************************************************************)
(* Bounds of the model and the inputs drawn from them.                     *)
(***************************************************************************)
\* the largest page count of a source document
MaxPages == 2

\* timeout=90 of the Grounded call
GroundedTimeout == 90

GroundingPrompt == "<|grounding|>Extract text with bounding boxes."
FreePrompt == "Free OCR."

\* a region announcement with the coordinate lexemes c, followed by body
Ann(c, body) == <<REF, "t", EREF, DET, LB>> \o c \o <<RB, EDET>> \o body

BoxA == <<"100", COMMA, SP, "200", COMMA, "500", COMMA, "300">>
BoxB == <<"100", COMMA, "500", COMMA, "800", COMMA, "800">>
\* xmax < xmin
BoxReversed == <<"500", COMMA, "200", COMMA, "100", COMMA, "300">>

\* the stripped texts perform_ocr returns in the page loop
RawResponses ==
    { << >>,
      <<"a", SP, "b", NL, NL, "c">>,
      Ann(BoxA, <<NL, "a", SP, "b">>),
      Ann(BoxA, << >>),
      Ann(BoxA, <<"a", NL>>) \o Ann(BoxB, <<"b", SP, "c">>),
      Ann(BoxReversed, <<"a">>) }

\* the ways perform_ocr raises: HallucinationError (line 144), the timeout
\* Exception (line 160) and any other Exception (line 165)
OcrErrors == {"HallucinationError", "Timeout", "Error"}

\* page.get_images(): the embedded images of a page, as pixel sizes
ImageLists ==
    { << >>,
      <<[width |-> 2000, height |-> 3000]>>,
      <<[width |-> 300, height |-> 200], [width |-> 2000, height |-> 1500]>>,
      <<[width |-> 1600, height |-> 900], [width |-> 300, height |-> 200]>>,
      <<[width |-> 100, height |-> 1500], [width |-> 1600, height |-> 900]>> }

\* page.get_pixmap at zoom 300/72 of a 612 x 792 point page
RasterSize == [width |-> 2550, height |-> 3300, native |-> FALSE]

(***************************************************************************)
(* State.                                                                  *)
(*   process_pdf (specification Spec):                                     *)
(*     pc            position in process_pdf                               *)
(*     has_callback  progress_callback is not None                         *)
(*     total_pages   len(doc)                                              *)
(*     page_num      index of the page being processed (0-based)           *)
(*     img           the background image of the current page              *)
(*     ocr_data, ocr_text_raw, is_fallback   the locals of lines 112-114   *)
(*     calls         the perform_ocr calls of the current page             *)
(*     slept         seconds of time.sleep in the current page             *)
(*     text_obj      the text lines of the current page's text object      *)
(*     layout        which layout branch of line 182 built text_obj        *)
(*     out_pages     the pages committed to the canvas by showPage         *)
(*     progress      the progress_callback calls since the last page began *)
(*     saved         the output file was written by c.save()               *)
(*     result        the returned pair, or NoResult                        *)
(*     page_img_list page.get_images() of the current page                 *)
(*     is_cancelled  item['is_cancelled'] of the item being processed      *)
(*                   (main.py, set by App.remove_item)                     *)
(*     out_file      what stands at output_path: "none", "partial" or      *)
(*                   "complete"                                            *)
(***************************************************************************)
VARIABLES pc, has_callback, total_pages, page_num, img, ocr_data, ocr_text_raw,
          is_fallback, calls, slept, text_obj, layout, out_pages, progress,
          saved, result, page_img_list, is_cancelled, out_file

pvars == <<pc, has_callback, total_pages, page_num, img, ocr_data, ocr_text_raw,
           is_fallback, calls, slept, text_obj, layout, out_pages, progress,
           saved, result, page_img_list, is_cancelled, out_file>>

(***************************************************************************)
(*   perform_ocr (specification SpecOcr):                                  *)
(*     o_pc          position in perform_ocr                               *)
(*     o_timeout     the timeout argument                                  *)
(*     o_elapsed     time.time() - start_time, in seconds                  *)
(*     o_wait        seconds the pending read has been blocked             *)
(*     o_lines       lines read from response.iter_lines()                 *)
(*     full_text     "".join(full_response)                               *)
(*     recent_buffer, hallucination_detected   the locals of that name     *)
(*     o_open        a response was received and not closed                *)
(*     o_leaked      responses of earlier calls still open at a new post   *)
(*     o_calls       the calls of perform_ocr begun                        *)
(*     o_result      how the call ended                                    *)
(*     o_done        chunk.get('done') of the last chunk handled           *)
(*   parse_response (specification SpecParse):                             *)
(*     q_pc          "input" before the call, "parsed" or "raised" after   *)
(*     q_segs        the segments the input text was written from          *)
(*     q_text        the input text                                        *)
(*     q_regions     the returned list                                     *)
(***************************************************************************)
VARIABLES o_pc, o_timeout, o_elapsed, o_wait, o_lines, full_text, recent_buffer,
          hallucination_detected, o_open, o_leaked, o_calls, o_result, o_done

ovars == <<o_pc, o_timeout, o_elapsed, o_wait, o_lines, full_text, recent_buffer,
           hallucination_detected, o_open, o_leaked, o_calls, o_result, o_done>>

VARIABLES q_pc, q_segs, q_text, q_regions

qvars == <<q_pc, q_segs, q_text, q_regions>>

(***************************************************************************)
(*   the layout of one region, lines 201-278 (specification SpecFont):     *)
(*     f_pc          "input", "loop", "picked", "rendered" or "raised"     *)
(*     f_item        the region (item of ocr_data)                         *)
(*     f_img         the background image of the page                      *)
(*     f_font_size   font_size, in thousandths of a point                  *)
(*     f_iter        iterations of the loop of line 238 begun              *)
(*     f_shrinks     times line 252 has run                                *)
(*     f_final_lines final_lines                                           *)
(*     f_last        the size and the lines the last iteration tested      *)
(*     f_drawn       the text lines emitted (lines 271-278)                *)
(***************************************************************************)
VARIABLES f_pc, f_item, f_img, f_font_size, f_iter, f_shrinks, f_final_lines,
          f_last, f_drawn

fvars == <<f_pc, f_item, f_img, f_font_size, f_iter, f_shrinks, f_final_lines,
           f_last, f_drawn>>

(***************************************************************************)
(*   OllamaHandler.model and check_connection (specification SpecConn):    *)
(*     h_model       self.model                                            *)
(*     c_result      the last check_connection: the answer it got, the     *)
(*                   pair it returned, and self.model before it            *)
(*     c_checks      the calls of check_connection made                    *)
(*     o_model       payload["model"] of the last perform_ocr call         *)
(*     o_after_check that call began after the last check_connection       *)
(***************************************************************************)
VARIABLES h_model, c_result, c_checks, o_model, o_after_check

cvars == <<h_model, c_result, c_checks, o_model, o_after_check>>

(***************************************************************************)
(*   the page-wide layout of coordinate-less text, lines 185-198           *)
(*   (specification SpecPage):                                             *)
(*     l_pc          "input", "blocks" (at line 190), "lines" (at line     *)
(*                   193) or "done"                                        *)
(*     l_text        ocr_text_raw                                          *)
(*     l_img         the background image of the page                      *)
(*     l_blocks      the blocks the loop of line 190 has yet to take       *)
(*     l_block       the number of the block taken last                    *)
(*     l_lines       the wrapped_lines the loop of line 193 has yet to     *)
(*                   take                                                  *)
(*     l_current_y   current_y, in thousandths of a point                  *)
(*     l_drawn       the text lines emitted (lines 195-196)                *)
(***************************************************************************)
VARIABLES l_pc, l_text, l_img, l_blocks, l_block, l_lines, l_current_y, l_drawn

lvars == <<l_pc, l_text, l_img, l_blocks, l_block, l_lines, l_current_y, l_drawn>>

(***************************************************************************)
(*   the processing queue of the window, main.py (specification SpecUi):   *)
(*     queue         self.queue, as the ids of its items                   *)
(*     current_item  the id of self.current_item, NoCurrent for None       *)
(*     is_processing, item_counter   the attributes of that name           *)
(*     u_cancelled   the ids of the items whose 'is_cancelled' is True     *)
(*     u_threads     the threads running _process_thread: the item, the    *)
(*                   position ("process_pdf", or "request" while a         *)
(*                   perform_ocr call of it is in flight) and the calls    *)
(*                   made                                                  *)
(*     u_events      the _finish_processing callbacks handed to            *)
(*                   self.after and not yet run                            *)
(*     u_started     the ids process_next_in_queue has started, in order   *)
(*     u_removed     the ids remove_item has taken out of the queue        *)
(*     u_finished    the items _finish_processing has run for, in order,   *)
(*                   and how each ended                                    *)
(***************************************************************************)
VARIABLES queue, current_item, is_processing, item_counter, u_cancelled, u_threads,
          u_events, u_started, u_removed, u_finished

uvars == <<queue, current_item, is_processing, item_counter, u_cancelled, u_threads,
           u_events, u_started, u_removed, u_finished>>

vars == <<pvars, ovars, qvars, fvars, cvars, lvars, uvars>>

\* 'deepseek-ocr', the substring looked for (line 34) and the model of line 14
Target == <<"deepseek", "-", "ocr">>

NoAnswer == [kind |-> "none", status |-> 0, models |-> << >>]

NoCheck == [checked |-> FALSE, ok |-> FALSE, model |-> << >>, reason |-> "",
            before |-> << >>, answer |-> NoAnswer]

ConnIdle ==
    /\ h_model = Target
    /\ c_result = NoCheck
    /\ c_checks = 0
    /\ o_model = << >>
    /\ o_after_check = FALSE

NoOcrResult == [kind |-> "none", text |-> << >>]

OcrIdle ==
    /\ o_pc = "idle"
    /\ o_timeout = 0
    /\ o_elapsed = 0
    /\ o_wait = 0
    /\ o_lines = 0
    /\ full_text = << >>
    /\ recent_buffer = << >>
    /\ hallucination_detected = FALSE
    /\ o_open = FALSE
    /\ o_leaked = 0
    /\ o_calls = 0
    /\ o_result = NoOcrResult
    /\ o_done = FALSE

ParseIdle ==
    /\ q_pc = "idle"
    /\ q_segs = << >>
    /\ q_text = << >>
    /\ q_regions = << >>

NoItem == [bbox |-> <<Div1000(0), Div1000(0), Div1000(0), Div1000(0)>>, text |-> << >>]
NoTest == [tested |-> FALSE, font_size |-> 0, lines |-> 0, accepted |-> FALSE]

FontIdle ==
    /\ f_pc = "idle"
    /\ f_item = NoItem
    /\ f_img = [width |-> 0, height |-> 0, native |-> FALSE]
    /\ f_font_size = 0
    /\ f_iter = 0
    /\ f_shrinks = 0
    /\ f_final_lines = << >>
    /\ f_last = NoTest
    /\ f_drawn = << >>

PageIdle ==
    /\ l_pc = "idle"
    /\ l_text = << >>
    /\ l_img = [width |-> 0, height |-> 0, native |-> FALSE]
    /\ l_blocks = << >>
    /\ l_block = 0
    /\ l_lines = << >>
    /\ l_current_y = 0
    /\ l_drawn = << >>

\* self.current_item = None
NoCurrent == 0 - 1

\* lines 24-27: the window after App.__init__
UiInit ==
    /\ queue = << >>
    /\ current_item = NoCurrent
    /\ is_processing = FALSE
    /\ item_counter = 0
    /\ u_cancelled = {}
    /\ u_threads = {}
    /\ u_events = << >>
    /\ u_started = << >>
    /\ u_removed = {}
    /\ u_finished = << >>

NoResult == [returned |-> FALSE, ok |-> FALSE, value |-> ""]
NoImage == [width |-> 0, height |-> 0, native |-> FALSE]

\* a callback told of the pages only
NotifyPagesOnly(log, current, total, kind) ==
    IF has_callback /\ kind \in {"opening", "page"}
    THEN Append(log, [current |-> current, total |-> total, kind |-> kind])
    ELSE log

\* progress_callback(current, total, message), when a callback was given
Notify(log, current, total, kind) ==
    IF has_callback THEN Append(log, [current |-> current, total |-> total, kind |-> kind])
    ELSE log

\* the except clause of line 289: process_pdf returns (False, str(e))
Fails(reason) ==
    /\ result' = [returned |-> TRUE, ok |-> FALSE, value |-> reason]
    /\ pc' = "done"

PipelineInit ==
    /\ pc = "start"
    /\ has_callback \in BOOLEAN
    /\ total_pages = 0
    /\ page_num = 0
    /\ img = NoImage
    /\ ocr_data = << >>
    /\ ocr_text_raw = << >>
    /\ is_fallback = FALSE
    /\ calls = << >>
    /\ slept = 0
    /\ text_obj = << >>
    /\ layout = "none"
    /\ out_pages = << >>
    /\ progress = << >>
    /\ saved = FALSE
    /\ result = NoResult
    /\ page_img_list = << >>
    /\ is_cancelled = FALSE
    /\ out_file = "none"

PipelineIdle ==
    /\ pc = "idle"
    /\ has_callback = FALSE
    /\ total_pages = 0
    /\ page_num = 0
    /\ img = NoImage
    /\ ocr_data = << >>
    /\ ocr_text_raw = << >>
    /\ is_fallback = FALSE
    /\ calls = << >>
    /\ slept = 0
    /\ text_obj = << >>
    /\ layout = "none"
    /\ out_pages = << >>
    /\ progress = << >>
    /\ saved = FALSE
    /\ result = NoResult
    /\ page_img_list = << >>
    /\ is_cancelled = FALSE
    /\ out_file = "none"

\* lines 51-61: the first progress call, fitz.open and the canvas
OpenOk ==
    /\ pc = "start"
    /\ \E n \in 1..MaxPages : total_pages' = n
    /\ progress' = Notify(progress, 0, 0, "opening")
    /\ pc' = "loop"
    /\ UNCHANGED <<ovars, qvars, fvars, cvars, uvars, lvars, page_img_list, is_cancelled, out_file, has_callback, page_num, img, ocr_data, ocr_text_raw, is_fallback,
                   calls, slept, text_obj, layout, out_pages, saved, result>>

\* fitz.open raises
OpenFails ==
    /\ pc = "start"
    /\ progress' = Notify(progress, 0, 0, "opening")
    /\ Fails("cannot open")
    /\ UNCHANGED <<ovars, qvars, fvars, cvars, uvars, lvars, page_img_list, is_cancelled, out_file, has_callback, total_pages, page_num, img, ocr_data, ocr_text_raw,
                   is_fallback, calls, slept, text_obj, layout, out_pages, saved>>

\* lines 75-85: the embedded image of the largest area (the first of equals)
RECURSIVE BestImage(_, _, _)
BestImage(img_list, best_img, max_area) ==
    IF img_list = << >> THEN best_img
    ELSE LET temp_img == Head(img_list)
             area == temp_img.width * temp_img.height
         IN  IF area > max_area THEN BestImage(Tail(img_list), temp_img, area)
             ELSE BestImage(Tail(img_list), best_img, max_area)

\* the largest embedded image whatever its height
PageImageOfAnyHeight(img_list) ==
    LET best_img == BestImage(img_list, NoImage, 0) IN
    IF img_list # << >> /\ best_img # NoImage
    THEN [width |-> best_img.width, height |-> best_img.height, native |-> TRUE]
    ELSE RasterSize

\* lines 69-97: the embedded image when it is higher than 1000 pixels, else the
\* page rendered at 300 DPI
PageImage(img_list) ==
    LET best_img == BestImage(img_list, NoImage, 0) IN
    IF img_list # << >> /\ best_img # NoImage /\ best_img.height > 1000
    THEN [width |-> best_img.width, height |-> best_img.height, native |-> TRUE]
    ELSE RasterSize

\* lines 63-114: the next page begins: progress, the background image, the
\* page size, drawImage and the locals of the OCR step
PageStart ==
    /\ pc = "loop"
    /\ page_num < total_pages
    /\ progress' = Notify(<< >>, page_num + 1, total_pages, "page")
    /\ page_img_list' \in ImageLists
    /\ img' = PageImage(page_img_list')
    /\ ocr_data' = << >>
    /\ is_fallback' = FALSE
    /\ ocr_text_raw' = << >>
    /\ calls' = << >>
    /\ slept' = 0
    /\ text_obj' = << >>
    /\ layout' = "none"
    /\ pc' = "grounded"
    /\ UNCHANGED <<ovars, qvars, fvars, cvars, uvars, lvars, is_cancelled, out_file, has_callback, total_pages, page_num, out_pages, saved, result>>

\* one perform_ocr call as process_pdf sees it
Call(prompt, timeout, outcome) ==
    [page |-> page_num + 1, prompt |-> prompt, timeout |-> timeout, outcome |-> outcome,
     after_sleep |-> slept, notices |-> Len(progress)]

\* lines 118-119: the Grounded call returns and its text is parsed
GroundedReturns ==
    /\ pc = "grounded"
    /\ \E raw \in RawResponses :
        /\ ocr_text_raw' = raw
        /\ ocr_data' = parse_response(raw)
    /\ calls' = Append(calls, Call(GroundingPrompt, GroundedTimeout, "ok"))
    /\ pc' = "layout"
    /\ UNCHANGED <<ovars, qvars, fvars, cvars, uvars, lvars, page_img_list, is_cancelled, out_file, has_callback, total_pages, page_num, img, is_fallback, slept,
                   text_obj, layout, out_pages, progress, saved, result>>

\* the notice of the handler that catches the Grounded error e
GroundedNotice(e) == IF e = "HallucinationError" THEN "hallucination" ELSE "primary_failed"

\* lines 120-125 and 142-148: the Grounded call raises; the handler sets
\* is_fallback and reports
GroundedRaises ==
    /\ pc = "grounded"
    /\ \E e \in OcrErrors :
        /\ calls' = Append(calls, Call(GroundingPrompt, GroundedTimeout, e))
        /\ progress' = Notify(progress, page_num + 1, total_pages, GroundedNotice(e))
    /\ is_fallback' = TRUE
    /\ pc' = "cooldown"
    /\ UNCHANGED <<ovars, qvars, fvars, cvars, uvars, lvars, page_img_list, is_cancelled, out_file, has_callback, total_pages, page_num, img, ocr_data, ocr_text_raw,
                   slept, text_obj, layout, out_pages, saved, result>>

\* only the hallucination handler waits
CooldownOnlyAfterHallucination(e) == IF e = "HallucinationError" THEN 3 ELSE 0

\* time.sleep(3) of lines 129 and 154
CooldownSeconds(e) == 3

\* timeout=120 of lines 134 and 159
FallbackTimeout(e) == 120

\* prompt="Free OCR." of lines 134 and 159
FallbackPrompt(e) == FreePrompt

GroundedError == calls[1].outcome

\* lines 127-129 and 152-154: the wait before the Fallback call
Cooldown ==
    /\ pc = "cooldown"
    /\ slept' = slept + CooldownSeconds(GroundedError)
    /\ pc' = "fallback"
    /\ UNCHANGED <<ovars, qvars, fvars, cvars, uvars, lvars, page_img_list, is_cancelled, out_file, has_callback, total_pages, page_num, img, ocr_data, ocr_text_raw,
                   is_fallback, calls, text_obj, layout, out_pages, progress, saved,
                   result>>

\* lines 134-135 and 159-160: the Fallback call returns and its text is parsed
FallbackReturns ==
    /\ pc = "fallback"
    /\ \E raw \in RawResponses :
        /\ ocr_text_raw' = raw
        /\ ocr_data' = parse_response(raw)
    /\ calls' = Append(calls, Call(FallbackPrompt(GroundedError),
                                   FallbackTimeout(GroundedError), "ok"))
    /\ pc' = "layout"
    /\ UNCHANGED <<ovars, qvars, fvars, cvars, uvars, lvars, page_img_list, is_cancelled, out_file, has_callback, total_pages, page_num, img, is_fallback, slept,
                   text_obj, layout, out_pages, progress, saved, result>>

\* a handler that tries the Fallback call once more
FallbackRaisesRetries ==
    /\ pc = "fallback"
    /\ \E e \in OcrErrors :
        calls' = Append(calls, Call(FreePrompt, 120, e))
    /\ progress' = Notify(progress, page_num + 1, total_pages, "fallback_failed")
    /\ pc' = IF Len(calls) < 2 THEN "fallback" ELSE "layout"
    /\ UNCHANGED <<ovars, qvars, fvars, cvars, uvars, lvars, page_img_list, is_cancelled, out_file, has_callback, total_pages, page_num, img, ocr_data,
                   ocr_text_raw, is_fallback, slept, text_obj, layout, out_pages, saved,
                   result>>

\* a handler that lets the second error leave the page iteration
FallbackRaisesPropagates ==
    /\ pc = "fallback"
    /\ \E e \in OcrErrors :
        calls' = Append(calls, Call(FreePrompt, 120, e))
    /\ progress' = Notify(progress, page_num + 1, total_pages, "fallback_failed")
    /\ Fails("both passes failed")
    /\ UNCHANGED <<ovars, qvars, fvars, cvars, uvars, lvars, page_img_list, is_cancelled, out_file, has_callback, total_pages, page_num, img, ocr_data,
                   ocr_text_raw, is_fallback, slept, text_obj, layout, out_pages, saved>>

\* lines 136-141 and 161-166: the Fallback call raises; the error is reported
\* and dropped
FallbackRaises ==
    /\ pc = "fallback"
    /\ \E e \in OcrErrors :
        calls' = Append(calls, Call(FallbackPrompt(GroundedError),
                                    FallbackTimeout(GroundedError), e))
    /\ progress' = Notify(progress, page_num + 1, total_pages, "fallback_failed")
    /\ pc' = "layout"
    /\ UNCHANGED <<ovars, qvars, fvars, cvars, uvars, lvars, page_img_list, is_cancelled, out_file, has_callback, total_pages, page_num, img, ocr_data, ocr_text_raw,
                   is_fallback, slept, text_obj, layout, out_pages, saved, result>>

\* the condition of line 182: no regions, and raw text that is not blank
UsePageLayout(data, raw, fallback) == data = << >> /\ Strip(raw) # << >>

\* lines 178-278: the text object of the page is built
Layout ==
    /\ pc = "layout"
    /\ IF UsePageLayout(ocr_data, ocr_text_raw, is_fallback)
       THEN /\ layout' = "page"
            /\ text_obj' = PageLayout(SplitBlocks(Strip(ocr_text_raw)), img.width,
                                      (img.height - 20) * 1000, 1)
            /\ pc' = "commit"
            /\ UNCHANGED result
       ELSE IF FirstRaising(ocr_data, img.width, img.height) # 0
       THEN /\ layout' = "regions"
            /\ text_obj' = RegionLayout(SubSeqFrom(ocr_data, 1,
                                FirstRaising(ocr_data, img.width, img.height) - 1),
                                img.width, img.height, 1)
            /\ Fails("math domain error")
       ELSE /\ layout' = "regions"
            /\ text_obj' = RegionLayout(ocr_data, img.width, img.height, 1)
            /\ pc' = "commit"
            /\ UNCHANGED result
    /\ UNCHANGED <<ovars, qvars, fvars, cvars, uvars, lvars, page_img_list, is_cancelled, out_file, has_callback, total_pages, page_num, img, ocr_data, ocr_text_raw,
                   is_fallback, calls, slept, out_pages, progress, saved>>

\* a page without text is not committed
CommitSkipsEmptyPage ==
    /\ pc = "commit"
    /\ out_pages' = IF text_obj = << >> THEN out_pages
                    ELSE Append(out_pages, [src |-> page_num + 1, width |-> img.width,
                                            height |-> img.height, image |-> TRUE,
                                            layout |-> layout, lines |-> Len(text_obj)])
    /\ page_num' = page_num + 1
    /\ pc' = "loop"
    /\ UNCHANGED <<ovars, qvars, fvars, cvars, uvars, lvars, page_img_list, is_cancelled, out_file, has_callback, total_pages, img, ocr_data, ocr_text_raw,
                   is_fallback, calls, slept, text_obj, layout, progress, saved, result>>

\* lines 282-283: drawText and showPage commit the page
Commit ==
    /\ pc = "commit"
    /\ out_pages' = Append(out_pages, [src |-> page_num + 1, width |-> img.width,
                                       height |-> img.height, image |-> TRUE,
                                       layout |-> layout, lines |-> Len(text_obj)])
    /\ page_num' = page_num + 1
    /\ pc' = "loop"
    /\ UNCHANGED <<ovars, qvars, fvars, cvars, uvars, lvars, page_img_list, is_cancelled, out_file, has_callback, total_pages, img, ocr_data, ocr_text_raw, is_fallback,
                   calls, slept, text_obj, layout, progress, saved, result>>

\* lines 285-287: c.save() writes the file and process_pdf returns (True, path)
SaveOk ==
    /\ pc = "loop"
    /\ page_num = total_pages
    /\ saved' = TRUE
    /\ out_file' = "complete"
    /\ result' = [returned |-> TRUE, ok |-> TRUE, value |-> "_ocr.pdf"]
    /\ pc' = "done"
    /\ UNCHANGED <<ovars, qvars, fvars, cvars, uvars, lvars, page_img_list, is_cancelled, has_callback, total_pages, page_num, img, ocr_data, ocr_text_raw,
                   is_fallback, calls, slept, text_obj, layout, out_pages, progress>>

\* c.save() raises: the file could not be opened for writing, or it was
\* opened and the writing of the document broke off; the except clause of line
\* 289 removes nothing
SaveFails ==
    /\ pc = "loop"
    /\ page_num = total_pages
    /\ \E opened \in BOOLEAN : out_file' = IF opened THEN "partial" ELSE out_file
    /\ Fails("cannot write")
    /\ UNCHANGED <<ovars, qvars, fvars, cvars, uvars, lvars, page_img_list, is_cancelled, has_callback, total_pages, page_num, img, ocr_data, ocr_text_raw,
                   is_fallback, calls, slept, text_obj, layout, out_pages, progress,
                   saved>>

\* App.remove_item (main.py, lines 152-155) for the item being processed, on
\* the UI thread while process_pdf runs on its own thread: the flag is set
remove_item ==
    /\ pc \notin {"idle", "done"}
    /\ ~is_cancelled
    /\ is_cancelled' = TRUE
    /\ UNCHANGED <<ovars, qvars, fvars, cvars, uvars, lvars, pc, has_callback, total_pages, page_num, img,
                   ocr_data, ocr_text_raw, is_fallback, calls, slept, text_obj, layout,
                   out_pages, progress, saved, result, page_img_list, out_file>>

(***************************************************************************)
(* perform_ocr: the streaming request (specification SpecOcr).             *)
(***************************************************************************)
\* the most lines one response delivers
MaxLines == 3
\* the most calls of perform_ocr on one session
MaxCalls == 2
\* seconds by which the clock advances while a read is blocked
TickSeconds == 60

\* timeout=(5, 120) of session.post: the seconds a read may block
ChunkReadTimeout == 120
\* recent_buffer[-200:]
BufferSize == 200
\* len(recent_buffer) > 50
MinDetectLen == 50
\* range(1, 11)
MaxPatternLen == 10
\* segment * 15
RepeatCount == 15

\* the timeout arguments process_pdf passes
OcrTimeouts == {GroundedTimeout, 120}

ProseCycle == <<"t", "h", "e", SP, "q", "u", "i", "c", "k", SP, "f", "o", "x", SP>>

\* running text without a repeated pattern
Prose(n) == [i \in 1..n |-> ProseCycle[((i - 1) % Len(ProseCycle)) + 1]]

RECURSIVE Repeat(_, _)
Repeat(seg, n) == IF n = 0 THEN << >> ELSE seg \o Repeat(seg, n - 1)

Chunk(response, done) == [kind |-> "chunk", response |-> response, done |-> done]

\* the lines response.iter_lines() yields: keep-alive blanks, lines that are
\* not JSON, and chunks
StreamLines ==
    { [kind |-> "empty", response |-> << >>, done |-> FALSE],
      [kind |-> "badjson", response |-> << >>, done |-> FALSE],
      Chunk(Prose(90), FALSE),
      Chunk(<<"b">>, FALSE),
      Chunk(Repeat(<<"a">>, 15), FALSE),
      Chunk(Repeat(<<"a">>, 15) \o <<"b">>, FALSE),
      Chunk(Repeat(<<"0", "1", "2", "3", "4", "5", "6", "7", "8", ".">>, 15), FALSE),
      Chunk(<< >>, TRUE) }

\* str.endswith
EndsWith(buf, suffix) ==
    /\ Len(suffix) <= Len(buf)
    /\ SubSeqFrom(buf, Len(buf) - Len(suffix) + 1, Len(buf)) = suffix

\* s[-n:]
LastChars(s, n) == IF Len(s) <= n THEN s ELSE SubSeq(s, Len(s) - n + 1, Len(s))

\* the pattern lengths stop at 9
DetectsPatternShortRange(buf) ==
    /\ Len(buf) > MinDetectLen
    /\ \E p_len \in 1..(MaxPatternLen - 1) :
          EndsWith(buf, Repeat(LastChars(buf, p_len), RepeatCount))

\* lines 128-135: the buffer ends with its last p_len characters repeated
DetectsPattern(buf) ==
    /\ Len(buf) > MinDetectLen
    /\ \E p_len \in 1..MaxPatternLen :
          EndsWith(buf, Repeat(LastChars(buf, p_len), RepeatCount))

\* lines 121-125: the token is appended and the buffer cut to its last characters
Buffered(buf, token) ==
    IF Len(buf \o token) > BufferSize THEN LastChars(buf \o token, BufferSize)
    ELSE buf \o token

\* the exception leaves perform_ocr through the handlers of lines 159-165
Raises(kind) ==
    /\ o_pc' = "raised"
    /\ o_result' = [kind |-> kind, text |-> << >>]

\* lines 88-96: perform_ocr is called and posts the request
StartCall ==
    /\ pc = "idle" /\ q_pc = "idle"
    /\ o_pc \in {"idle", "returned", "raised"}
    /\ o_calls < MaxCalls
    /\ \E t \in OcrTimeouts : o_timeout' = t
    /\ o_calls' = o_calls + 1
    /\ o_leaked' = o_leaked + (IF o_open THEN 1 ELSE 0)
    /\ o_open' = FALSE
    /\ o_elapsed' = 0
    /\ o_wait' = 0
    /\ o_lines' = 0
    /\ full_text' = << >>
    /\ recent_buffer' = << >>
    /\ hallucination_detected' = FALSE
    /\ o_result' = NoOcrResult
    /\ o_done' = FALSE
    /\ o_model' = h_model
    /\ o_after_check' = TRUE
    /\ o_pc' = "posted"
    /\ UNCHANGED <<pvars, qvars, fvars, lvars, uvars, h_model, c_result, c_checks>>

\* time passes while session.post or iter_lines blocks
Tick ==
    /\ o_pc \in {"posted", "streaming"}
    /\ o_wait + TickSeconds <= ChunkReadTimeout
    /\ o_wait' = o_wait + TickSeconds
    /\ o_elapsed' = o_elapsed + TickSeconds
    /\ UNCHANGED <<pvars, qvars, fvars, cvars, uvars, lvars, o_pc, o_timeout, o_lines, full_text, recent_buffer,
                   hallucination_detected, o_open, o_leaked, o_calls, o_result, o_done>>

\* session.post raises: no connection, or no response headers in time
PostRaises ==
    /\ o_pc = "posted"
    /\ \E kind \in {"Timeout", "Error"} : Raises(kind)
    /\ UNCHANGED <<pvars, qvars, fvars, cvars, uvars, lvars, o_timeout, o_elapsed, o_wait, o_lines, full_text,
                   recent_buffer, hallucination_detected, o_open, o_leaked, o_calls, o_done>>

\* lines 98-100: the service answers with an error status and perform_ocr
\* raises outside the try/finally of lines 102-146, so response.close() is not
\* called: the response lets go of its connection only when reading
\* response.text for the message consumed the whole body
PostReturnsError ==
    /\ o_pc = "posted"
    /\ \E body_consumed \in BOOLEAN : o_open' = ~body_consumed
    /\ Raises("Error")
    /\ UNCHANGED <<pvars, qvars, fvars, cvars, uvars, lvars, o_timeout, o_elapsed, o_wait, o_lines, full_text,
                   recent_buffer, hallucination_detected, o_leaked, o_calls, o_done>>

\* lines 98-105: the service answers 200 and the stream is read
PostReturnsOk ==
    /\ o_pc = "posted"
    /\ o_open' = TRUE
    /\ o_wait' = 0
    /\ recent_buffer' = << >>
    /\ o_pc' = "streaming"
    /\ UNCHANGED <<pvars, qvars, fvars, cvars, uvars, lvars, o_timeout, o_elapsed, o_lines, full_text,
                   hallucination_detected, o_leaked, o_calls, o_result, o_done>>

\* lines 108-109: the wall-clock check made when a line has arrived
DeadlinePassed == o_elapsed > o_timeout

\* the loop leaves at the first break only
LoopExitOnDetectionOnly(detected, done) ==
    IF detected THEN "hallucination" ELSE "next"

\* lines 137-141: how the loop body ends after a chunk was handled
LoopExit(detected, done) ==
    IF detected THEN "hallucination"
    ELSE IF done THEN "done"
    ELSE "next"

\* lines 107-146: one line arrives and the loop body runs; on a break or an
\* exception the finally clause closes the response
ReadLine ==
    /\ o_pc = "streaming"
    /\ o_lines < MaxLines
    /\ o_lines' = o_lines + 1
    /\ o_wait' = 0
    /\ \E line \in StreamLines :
        IF DeadlinePassed
        THEN /\ o_open' = FALSE
             /\ Raises("Timeout")
             /\ UNCHANGED <<full_text, recent_buffer, hallucination_detected, o_done>>
        ELSE IF line.kind # "chunk"
        THEN UNCHANGED <<full_text, recent_buffer, hallucination_detected, o_open, o_pc,
                         o_result, o_done>>
        ELSE /\ full_text' = full_text \o line.response
             /\ recent_buffer' = Buffered(recent_buffer, line.response)
             /\ hallucination_detected' = DetectsPattern(recent_buffer')
             /\ LET exit == LoopExit(hallucination_detected', line.done)
                IN  /\ o_done' = line.done
                    /\ IF exit = "hallucination"
                       THEN o_open' = FALSE /\ Raises("HallucinationError")
                       ELSE IF exit = "done"
                       THEN /\ o_open' = FALSE
                            /\ o_pc' = "returned"
                            /\ o_result' = [kind |-> "text", text |-> Strip(full_text')]
                       ELSE UNCHANGED <<o_open, o_pc, o_result>>
    /\ UNCHANGED <<pvars, qvars, fvars, cvars, uvars, lvars, o_timeout, o_elapsed, o_leaked, o_calls>>

\* the stream ends without a chunk that says done: the loop ends, the response
\* is closed and the text is returned (lines 143-157)
StreamEnds ==
    /\ o_pc = "streaming"
    /\ o_open' = FALSE
    /\ o_pc' = "returned"
    /\ o_result' = [kind |-> "text", text |-> Strip(full_text)]
    /\ UNCHANGED <<pvars, qvars, fvars, cvars, uvars, lvars, o_timeout, o_elapsed, o_wait, o_lines, full_text,
                   recent_buffer, hallucination_detected, o_leaked, o_calls, o_done>>

\* no line arrives within the read timeout: iter_lines raises, the finally
\* clause closes the response; requests reports it as a Timeout or as a
\* ConnectionError
ReadTimesOut ==
    /\ o_pc = "streaming"
    /\ o_wait + TickSeconds > ChunkReadTimeout
    /\ o_elapsed' = o_elapsed + (ChunkReadTimeout - o_wait)
    /\ o_wait' = ChunkReadTimeout
    /\ o_open' = FALSE
    /\ \E kind \in {"Timeout", "Error"} : Raises(kind)
    /\ UNCHANGED <<pvars, qvars, fvars, cvars, uvars, lvars, o_timeout, o_lines, full_text, recent_buffer,
                   hallucination_detected, o_leaked, o_calls, o_done>>

(***************************************************************************)
(* check_connection and the model of the requests (specification SpecConn) *)
(***************************************************************************)
\* the most calls of check_connection
MaxChecks == 2

\* sub in name: sub stands in name as a run of adjacent characters
Contains(name, sub) ==
    \E i \in 0..(Len(name) - Len(sub)) : SubSeqFrom(name, i + 1, i + Len(sub)) = sub

\* response.json().get('models', []), as the names m.get('name', '') of its
\* entries; << >> is the name ''
Catalogs ==
    { << >>,
      <<<<"llama3">>, <<"deepseek", "-", "r1">>>>,
      <<<<"llama3">>, <<"user", "/", "deepseek", "-", "ocr">>,
        <<"deepseek", "-", "ocr", ":", "latest">>>>,
      <<<< >>, <<"ocr", "-", "deepseek">>, <<"deepseek", "-", "ocr", ":", "latest">>,
        <<"user", "/", "deepseek", "-", "ocr">>>>,
      <<<<"deepseek", "-", "ocr">>>> }

\* what session.get of /api/tags comes to: no connection, another exception
\* (a read timeout, a body that is no JSON), or a response with a status
CatalogAnswers ==
    { [kind |-> "unreachable", status |-> 0, models |-> << >>],
      [kind |-> "exception", status |-> 0, models |-> << >>],
      [kind |-> "response", status |-> 500, models |-> << >>] }
    \cup { [kind |-> "response", status |-> 200, models |-> c] : c \in Catalogs }

\* the last name that holds the target
RECURSIVE FoundModelLast(_)
FoundModelLast(models) ==
    IF models = << >> THEN << >>
    ELSE IF Contains(models[Len(models)], Target) THEN models[Len(models)]
    ELSE FoundModelLast(SubSeq(models, 1, Len(models) - 1))

\* lines 29-36: the first name that holds the target, << >> for None
RECURSIVE FoundModel(_)
FoundModel(models) ==
    IF models = << >> THEN << >>
    ELSE IF Contains(Head(models), Target) THEN Head(models)
    ELSE FoundModel(Tail(models))

\* lines 25-49: the pair check_connection returns for an answer
CheckResult(answer) ==
    IF answer.kind = "unreachable"
    THEN [ok |-> FALSE, model |-> << >>,
          reason |-> "Could not connect to Ollama. Is it running?"]
    ELSE IF answer.kind = "exception"
    THEN [ok |-> FALSE, model |-> << >>, reason |-> "str(e)"]
    ELSE IF answer.status # 200
    THEN [ok |-> FALSE, model |-> << >>, reason |-> "Ollama returned status"]
    ELSE IF FoundModel(answer.models) # << >>
    THEN [ok |-> TRUE, model |-> FoundModel(answer.models), reason |-> ""]
    ELSE [ok |-> FALSE, model |-> << >>,
          reason |-> "Model 'deepseek-ocr' not found. Please pull it first."]

\* OllamaHandler.check_connection, on the thread App.check_ollama starts.  It
\* shares only self.model with perform_ocr, which reads it once, at line 74:
\* a check that runs during a call has the effect of one that runs after it
check_connection ==
    /\ pc = "idle" /\ q_pc = "idle" /\ f_pc = "idle"
    /\ o_pc \in {"idle", "returned", "raised"}
    /\ c_checks < MaxChecks
    /\ c_checks' = c_checks + 1
    /\ \E answer \in CatalogAnswers :
        /\ c_result' = [checked |-> TRUE, ok |-> CheckResult(answer).ok,
                        model |-> CheckResult(answer).model,
                        reason |-> CheckResult(answer).reason,
                        before |-> h_model, answer |-> answer]
        /\ h_model' = IF CheckResult(answer).ok THEN CheckResult(answer).model
                      ELSE h_model
    /\ o_after_check' = FALSE
    /\ UNCHANGED <<pvars, ovars, qvars, fvars, lvars, uvars, o_model>>

\* the calls of perform_ocr end at once here: only the model they send matters
NextConn ==
    \/ check_connection
    \/ StartCall
    \/ PostRaises
    \/ PostReturnsError

NextOcr ==
    \/ StartCall
    \/ Tick
    \/ PostRaises
    \/ PostReturnsError
    \/ PostReturnsOk
    \/ ReadLine
    \/ StreamEnds
    \/ ReadTimesOut

InitOcr == PipelineIdle /\ OcrIdle /\ ParseIdle /\ FontIdle /\ ConnIdle /\ PageIdle /\ UiInit

SpecOcr == InitOcr /\ [][NextOcr]_vars

SpecConn == InitOcr /\ [][NextConn]_vars

(***************************************************************************)
(* parse_response on written inputs (specification SpecParse).             *)
(***************************************************************************)
\* the most segments an input text is written from
MaxSegs == 3

NumeralOf(v) == CHOOSE t \in Numerals : NumeralValue(t) = v

Seg(kind, box, spaced, pre, core, post) ==
    [kind |-> kind, box |-> box, spaced |-> spaced, pre |-> pre, core |-> core,
     post |-> post]

\* what an input text is written from: well-formed announcements ("ann") with
\* their content (core, with whitespace pre and post around it), announcements
\* with three numbers ("ann3") or with a coordinate that is no number ("annx"),
\* and text without markup ("text")
Segments ==
    { Seg("ann", <<100, 200, 500, 300>>, FALSE, <<NL>>, <<"a", SP, "b">>, <<NL>>),
      Seg("ann", <<100, 500, 800, 800>>, TRUE, << >>, << >>, << >>),
      Seg("ann", <<100, 200, 500, 300>>, FALSE, <<SP>>, << >>, <<NL>>),
      Seg("ann", <<500, 200, 100, 300>>, FALSE, << >>, <<"a", NL, NL, "b">>, <<SP>>),
      Seg("ann", <<0, 0, 1200, 1000>>, TRUE, <<NL>>, <<"c">>, << >>),
      Seg("ann3", <<100, 200, 500>>, FALSE, << >>, <<"x">>, <<NL>>),
      Seg("annx", <<100, 200, 500, 300>>, FALSE, << >>, <<"y">>, << >>),
      Seg("text", << >>, FALSE, << >>, <<"a", SP, "b">>, <<NL>>),
      Seg("text", << >>, FALSE, << >>, <<REF, "a">>, <<NL>>) }

RECURSIVE CoordLexemes(_, _)
CoordLexemes(box, spaced) ==
    IF box = << >> THEN << >>
    ELSE (IF spaced THEN <<SP, NumeralOf(Head(box)), SP>> ELSE <<NumeralOf(Head(box))>>)
         \o (IF Len(box) > 1 THEN <<COMMA>> ELSE << >>)
         \o CoordLexemes(Tail(box), spaced)

\* the second coordinate is written as a letter
BadCoordLexemes(box) ==
    <<NumeralOf(box[1]), COMMA, "a", COMMA, NumeralOf(box[3]), COMMA, NumeralOf(box[4])>>

Written(seg) ==
    IF seg.kind = "text" THEN seg.pre \o seg.core \o seg.post
    ELSE (IF seg.spaced THEN <<REF, SP, "t", SP, EREF, NL, DET, SP, LB>>
          ELSE <<REF, "t", EREF, DET, LB>>)
         \o (IF seg.kind = "annx" THEN BadCoordLexemes(seg.box)
             ELSE CoordLexemes(seg.box, seg.spaced))
         \o (IF seg.spaced THEN <<RB, SP, EDET>> ELSE <<RB, EDET>>)
         \o seg.pre \o seg.core \o seg.post

RECURSIVE WrittenAll(_)
WrittenAll(segs) ==
    IF segs = << >> THEN << >> ELSE Written(Head(segs)) \o WrittenAll(Tail(segs))

SegSeqs == UNION { [1..n -> Segments] : n \in 0..MaxSegs }

InitParse ==
    /\ PipelineIdle
    /\ OcrIdle
    /\ FontIdle
    /\ ConnIdle
    /\ PageIdle
    /\ UiInit
    /\ q_pc = "input"
    /\ q_segs \in SegSeqs
    /\ q_text = WrittenAll(q_segs)
    /\ q_regions = << >>

\* the call parse_response(q_text)
Parse ==
    /\ q_pc = "input"
    /\ IF ParseRaises(q_text)
       THEN q_regions' = << >> /\ q_pc' = "raised"
       ELSE q_regions' = parse_response(q_text) /\ q_pc' = "parsed"
    /\ UNCHANGED <<pvars, ovars, fvars, cvars, uvars, lvars, q_segs, q_text>>

NextParse == Parse

SpecParse == InitParse /\ [][NextParse]_vars

(***************************************************************************)
(* The layout of one region, step by step (specification SpecFont).        *)
(***************************************************************************)
\* boxes (xmin, ymin, xmax, ymax, in thousandths) of ymax >= ymin: an ordinary
\* one, a low and wide one, a small one, one of no height, one of a hundredth
\* of the page height... and one with xmax < xmin.  (With ymax < ymin the
\* test of line 247 compares two equal products and hangs on their rounding.)
FontBoxes ==
    { <<100, 200, 500, 300>>,
      <<0, 0, 800, 100>>,
      <<100, 200, 160, 210>>,
      <<100, 200, 500, 200>>,
      <<0, 0, 100, 100>>,
      <<100, 200, 500, 201>>,
      <<500, 200, 100, 300>> }

\* stripped, non-empty region texts
FontTexts ==
    { <<"a">>,
      <<"a", SP, "b">>,
      <<"a", "b", SP, "c", "d", NL, "e", "f">>,
      <<"a", NL, "b", NL, "c", NL, "d", NL, "e", NL, "f", NL, "g", NL, "h">>,
      Prose(90) }

FontItems ==
    { [bbox |-> <<Div1000(b[1]), Div1000(b[2]), Div1000(b[3]), Div1000(b[4])>>,
       text |-> t] : b \in FontBoxes, t \in FontTexts }

InitFont ==
    /\ PipelineIdle
    /\ OcrIdle
    /\ ParseIdle
    /\ ConnIdle
    /\ PageIdle
    /\ UiInit
    /\ f_pc = "input"
    /\ f_item \in FontItems
    /\ f_img \in { PageImage(img_list) : img_list \in ImageLists }
    /\ f_font_size = 0
    /\ f_iter = 0
    /\ f_shrinks = 0
    /\ f_final_lines = << >>
    /\ f_last = NoTest
    /\ f_drawn = << >>

\* lines 205-234: the box and the start size; math.sqrt raises on a negative area
FontStart ==
    /\ f_pc = "input"
    /\ IF NegativeArea(f_item, f_img.width, f_img.height)
       THEN f_pc' = "raised" /\ UNCHANGED f_font_size
       ELSE /\ f_font_size' = StartFontSize(f_item.text, BoxWidth(f_item, f_img.width),
                                            BoxHeight(f_item, f_img.height))
            /\ f_pc' = "loop"
    /\ UNCHANGED <<pvars, ovars, qvars, cvars, uvars, lvars, f_item, f_img, f_iter, f_shrinks, f_final_lines,
                   f_last, f_drawn>>

\* lines 238-256: one iteration of "for _ in range(5)"
FontIterate ==
    /\ f_pc = "loop"
    /\ f_iter < 5
    /\ LET box_width == BoxWidth(f_item, f_img.width)
           box_height == BoxHeight(f_item, f_img.height)
           lines == simpleSplit(f_item.text, f_font_size, box_width)
       IN  /\ f_iter' = f_iter + 1
           /\ f_last' = [tested |-> TRUE, font_size |-> f_font_size, lines |-> Len(lines),
                         accepted |-> Fits(Len(lines), f_font_size, box_height)]
           /\ IF Fits(Len(lines), f_font_size, box_height)
              THEN /\ f_final_lines' = lines
                   /\ f_pc' = "picked"
                   /\ UNCHANGED <<f_font_size, f_shrinks>>
              ELSE /\ f_shrinks' = f_shrinks + 1
                   /\ IF Shrunk(f_font_size) < 4000
                      THEN /\ f_font_size' = 4000
                           /\ f_final_lines' = simpleSplit(f_item.text, 4000, box_width)
                           /\ f_pc' = "picked"
                      ELSE /\ f_font_size' = Shrunk(f_font_size)
                           /\ f_pc' = IF f_iter' = 5 THEN "picked" ELSE "loop"
                           /\ UNCHANGED f_final_lines
    /\ UNCHANGED <<pvars, ovars, qvars, cvars, uvars, lvars, f_item, f_img, f_drawn>>

\* lines 258-278: the lines are wrapped once more when none were kept, then
\* emitted from the top of the box down
FontRender ==
    /\ f_pc = "picked"
    /\ LET box_width == BoxWidth(f_item, f_img.width)
           box_height == BoxHeight(f_item, f_img.height)
           y_pos == Scaled(OneMinus(f_item.bbox[4]), f_img.height)
           final_lines == IF f_final_lines = << >>
                          THEN simpleSplit(f_item.text, f_font_size, box_width)
                          ELSE f_final_lines
       IN  /\ f_final_lines' = final_lines
           /\ f_drawn' = RenderLines(final_lines, Scaled(f_item.bbox[1], f_img.width), y_pos,
                                     y_pos + box_height - f_font_size, f_font_size, 1)
    /\ f_pc' = "rendered"
    /\ UNCHANGED <<pvars, ovars, qvars, cvars, uvars, lvars, f_item, f_img, f_font_size, f_iter, f_shrinks, f_last>>

NextFont ==
    \/ FontStart
    \/ FontIterate
    \/ FontRender

SpecFont == InitFont /\ [][NextFont]_vars

(***************************************************************************)
(* The layout of a page of coordinate-less text, lines 185-198, statement  *)
(* by statement (specification SpecPage).                                  *)
(***************************************************************************)
\* the sizes of background images: embedded images higher than 1000
\* pixels, and pages of 12 x 7.2, 24 x 9.6, 24 x 12, 48 x 24 and 9.6 x 36
\* points rendered at zoom 300/72
PageSizes ==
    { [width |-> 2000, height |-> 3000, native |-> TRUE],
      [width |-> 50, height |-> 30, native |-> FALSE],
      [width |-> 100, height |-> 40, native |-> FALSE],
      [width |-> 100, height |-> 50, native |-> FALSE],
      [width |-> 200, height |-> 100, native |-> FALSE],
      [width |-> 40, height |-> 150, native |-> FALSE] }

\* raw texts without a region announcement; stripped of them something is left
PageTexts ==
    { <<"a">>,
      <<"a", SP, "b", NL, NL, "c">>,
      <<SP, "a", NL, "b", NL, NL, SP, NL, NL, "c", SP, "d", NL, NL, NL, "e", NL>>,
      <<"a", NL, NL, "b", NL, NL, "c", NL, NL, "d", NL, NL, "e", NL, NL, "f">>,
      Prose(90) }

InitPage ==
    /\ PipelineIdle
    /\ OcrIdle
    /\ ParseIdle
    /\ FontIdle
    /\ ConnIdle
    /\ UiInit
    /\ l_pc = "input"
    /\ l_text \in PageTexts
    /\ l_img \in PageSizes
    /\ l_blocks = << >>
    /\ l_block = 0
    /\ l_lines = << >>
    /\ l_current_y = 0
    /\ l_drawn = << >>

\* the inner loop never breaks
AtPageBottomNever(current_y) == FALSE

\* line 194: if current_y < 20: break
AtPageBottom(current_y) == current_y < 20000

\* lines 185-190: the cursor is put 20 below the top and the text is split
PageLayoutStart ==
    /\ l_pc = "input"
    /\ l_current_y' = (l_img.height - 20) * 1000
    /\ l_blocks' = SplitBlocks(Strip(l_text))
    /\ l_pc' = "blocks"
    /\ UNCHANGED <<pvars, ovars, qvars, fvars, cvars, uvars, l_text, l_img, l_block, l_lines, l_drawn>>

\* lines 190-192: the next block is taken; a blank one is passed over by
\* "continue", another is wrapped to the page width less 40
BlockBegin ==
    /\ l_pc = "blocks"
    /\ l_blocks # << >>
    /\ l_blocks' = Tail(l_blocks)
    /\ l_block' = l_block + 1
    /\ IF Strip(Head(l_blocks)) = << >>
       THEN UNCHANGED <<l_pc, l_lines>>
       ELSE /\ l_lines' = simpleSplit(Strip(Head(l_blocks)), 10000,
                                      (l_img.width - 40) * 1000)
            /\ l_pc' = "lines"
    /\ UNCHANGED <<pvars, ovars, qvars, fvars, cvars, uvars, l_text, l_img, l_current_y, l_drawn>>

\* lines 193-197: one line is emitted at the cursor and the cursor drops
LineEmit ==
    /\ l_pc = "lines"
    /\ l_lines # << >>
    /\ ~AtPageBottom(l_current_y)
    /\ l_drawn' = Append(l_drawn, [x |-> 20000, y |-> l_current_y, font_size |-> 10000,
                                   src |-> l_block])
    /\ l_current_y' = l_current_y - 12000
    /\ l_lines' = Tail(l_lines)
    /\ UNCHANGED <<pvars, ovars, qvars, fvars, cvars, uvars, l_pc, l_text, l_img, l_blocks, l_block>>

\* lines 193-198: the inner loop ends, by exhaustion or by the break of
\* line 194, and the space between blocks is added
BlockEnd ==
    /\ l_pc = "lines"
    /\ ~(l_lines # << >> /\ ~AtPageBottom(l_current_y))
    /\ l_current_y' = l_current_y - 5000
    /\ l_lines' = << >>
    /\ l_pc' = "blocks"
    /\ UNCHANGED <<pvars, ovars, qvars, fvars, cvars, uvars, l_text, l_img, l_blocks, l_block, l_drawn>>

\* the loop of line 190 is exhausted
PageLayoutDone ==
    /\ l_pc = "blocks"
    /\ l_blocks = << >>
    /\ l_pc' = "done"
    /\ UNCHANGED <<pvars, ovars, qvars, fvars, cvars, uvars, l_text, l_img, l_blocks, l_block, l_lines,
                   l_current_y, l_drawn>>

NextPage ==
    \/ PageLayoutStart
    \/ BlockBegin
    \/ LineEmit
    \/ BlockEnd
    \/ PageLayoutDone

SpecPage == InitPage /\ [][NextPage]_vars

(***************************************************************************)
(* The processing queue of the window, main.py lines 88-205                *)
(* (specifications SpecUi and SpecUiFair).  The handlers drop_file,        *)
(* remove_item and _finish_processing run on the thread of the event loop, *)
(* one at a time; _process_thread runs on a thread of its own.             *)
(***************************************************************************)
\* the most items ever added to the queue
MaxItems == 3
\* the most valid files of one drop
MaxDrop == 2
\* the most perform_ocr calls of one document
MaxRequests == 1

\* the ids add_to_queue_ui gives to n files: item_counter, item_counter + 1, ...
NewIds(n) == [k \in 1..n |-> item_counter + k - 1]

Elements(q) == { q[k] : k \in 1..Len(q) }

\* [i for i in self.queue if i['id'] != item_id]
Without(q, item_id) == SelectSeq(q, LAMBDA i : i # item_id)

\* the item started is the one added last
PopLast(q) == [item |-> q[Len(q)], rest |-> SubSeqFrom(q, 1, Len(q) - 1)]

\* line 168: self.queue.pop(0)
Pop(q) == [item |-> Head(q), rest |-> Tail(q)]

\* a drop starts the next item whatever is running
MayStartAlways(processing) == TRUE

\* line 103: if not self.is_processing
MayStart(processing) == ~processing

\* the queue is left as it is and nothing is started
process_next_never(q, cur) ==
    /\ queue' = q
    /\ current_item' = cur
    /\ UNCHANGED <<is_processing, u_threads, u_started>>

\* lines 162-174, called with the queue at q and current_item at cur
process_next_in_queue(q, cur) ==
    IF q = << >>
    THEN /\ is_processing' = FALSE
         /\ queue' = q
         /\ current_item' = cur
         /\ UNCHANGED <<u_threads, u_started>>
    ELSE /\ current_item' = Pop(q).item
         /\ queue' = Pop(q).rest
         /\ is_processing' = TRUE
         /\ u_threads' = u_threads \cup
                            {[item |-> Pop(q).item, pc |-> "process_pdf", requests |-> 0]}
         /\ u_started' = Append(u_started, Pop(q).item)

\* lines 88-104 with lines 106-136 for each file: a drop of n valid files
\* (a drop without one changes nothing but the footer)
drop_file ==
    /\ \E n \in 1..MaxDrop :
        /\ item_counter + n <= MaxItems
        /\ item_counter' = item_counter + n
        /\ IF MayStart(is_processing)
           THEN process_next_in_queue(queue \o NewIds(n), current_item)
           ELSE /\ queue' = queue \o NewIds(n)
                /\ UNCHANGED <<current_item, is_processing, u_threads, u_started>>
    /\ UNCHANGED <<pvars, ovars, qvars, fvars, cvars, lvars, u_cancelled, u_events, u_removed,
                   u_finished>>

\* the items whose frame shows a button bound to remove_item: those waiting
\* and the active one until it is cancelled (line 155) or finished (lines
\* 190, 197, 201)
Removable ==
    Elements(queue) \cup
        (IF current_item # NoCurrent /\ current_item \notin u_cancelled
         THEN {current_item} ELSE {})

\* lines 138-160: the button of an item is pressed
remove_item_event ==
    /\ \E item_id \in Removable :
        LET target == IF item_id \in Elements(queue) THEN item_id
                      ELSE IF current_item = item_id THEN item_id
                      ELSE NoCurrent
        IN  IF target = NoCurrent
            THEN UNCHANGED <<queue, u_cancelled, u_removed>>
            ELSE IF target = current_item
            THEN /\ u_cancelled' = u_cancelled \cup {target}
                 /\ UNCHANGED <<queue, u_removed>>
            ELSE /\ queue' = Without(queue, item_id)
                 /\ u_removed' = u_removed \cup {item_id}
                 /\ UNCHANGED u_cancelled
    /\ UNCHANGED <<pvars, ovars, qvars, fvars, cvars, lvars, current_item, is_processing,
                   item_counter, u_threads, u_events, u_started, u_finished>>

\* process_pdf, on the worker thread, begins a perform_ocr call
WorkerRequest ==
    /\ \E t \in u_threads :
        /\ t.pc = "process_pdf"
        /\ t.requests < MaxRequests
        /\ u_threads' = (u_threads \ {t}) \cup
                            {[t EXCEPT !.pc = "request", !.requests = t.requests + 1]}
    /\ UNCHANGED <<pvars, ovars, qvars, fvars, cvars, lvars, queue, current_item, is_processing,
                   item_counter, u_cancelled, u_events, u_started, u_removed, u_finished>>

\* the perform_ocr call returns or raises
WorkerResponse ==
    /\ \E t \in u_threads :
        /\ t.pc = "request"
        /\ u_threads' = (u_threads \ {t}) \cup {[t EXCEPT !.pc = "process_pdf"]}
    /\ UNCHANGED <<pvars, ovars, qvars, fvars, cvars, lvars, queue, current_item, is_processing,
                   item_counter, u_cancelled, u_events, u_started, u_removed, u_finished>>

\* lines 184-186: process_pdf returns (it catches every Exception), the
\* thread hands _finish_processing to the event loop and ends
process_thread_ends ==
    /\ \E t \in u_threads, success \in BOOLEAN :
        /\ t.pc = "process_pdf"
        /\ u_events' = Append(u_events, [item |-> t.item, success |-> success])
        /\ u_threads' = u_threads \ {t}
    /\ UNCHANGED <<pvars, ovars, qvars, fvars, cvars, lvars, queue, current_item, is_processing,
                   item_counter, u_cancelled, u_started, u_removed, u_finished>>

\* lines 189-202: what the item shows when it has finished
Outcome(item, success) ==
    IF item \in u_cancelled THEN "cancelled"
    ELSE IF success THEN "done"
    ELSE "error"

\* lines 188-205: the event loop runs the oldest pending callback
finish_processing ==
    /\ u_events # << >>
    /\ u_events' = Tail(u_events)
    /\ u_finished' = Append(u_finished,
                            [item |-> Head(u_events).item,
                             outcome |-> Outcome(Head(u_events).item, Head(u_events).success)])
    /\ process_next_in_queue(queue, NoCurrent)
    /\ UNCHANGED <<pvars, ovars, qvars, fvars, cvars, lvars, item_counter, u_cancelled,
                   u_removed>>

process_thread == WorkerRequest \/ WorkerResponse \/ process_thread_ends

NextUi ==
    \/ drop_file
    \/ remove_item_event
    \/ WorkerRequest
    \/ WorkerResponse
    \/ process_thread_ends
    \/ finish_processing

InitUi == PipelineIdle /\ OcrIdle /\ ParseIdle /\ FontIdle /\ ConnIdle /\ PageIdle /\ UiInit

SpecUi == InitUi /\ [][NextUi]_vars

\* the worker thread is scheduled and the event loop runs the callbacks
\* handed to it; nobody has to drop a file or press a button
SpecUiFair ==
    /\ InitUi
    /\ [][NextUi]_vars
    /\ WF_vars(process_thread)
    /\ WF_vars(finish_processing)

Next ==
    \/ OpenOk
    \/ OpenFails
    \/ PageStart
    \/ GroundedReturns
    \/ GroundedRaises
    \/ Cooldown
    \/ FallbackReturns
    \/ FallbackRaises
    \/ Layout
    \/ Commit
    \/ SaveOk
    \/ SaveFails
    \/ remove_item

Init == PipelineInit /\ OcrIdle /\ ParseIdle /\ FontIdle /\ ConnIdle /\ PageIdle /\ UiInit

Spec == Init /\ [][Next]_vars

(***************************************************************************)
(* Properties of process_pdf (specification Spec).                         *)
(***************************************************************************)
GroundedFailed == Len(calls) >= 1 /\ calls[1].outcome # "ok"
BothFailed == Len(calls) = 2 /\ calls[1].outcome # "ok" /\ calls[2].outcome # "ok"

\* the OCR step of the page the calls belong to is over
OcrStepOver == calls # << >> /\ pc \in {"layout", "commit", "loop", "done"}

\* C1: a page gets at most two perform_ocr calls: the Grounded one first, and
\* one Fallback call exactly when the Grounded call raised; never a third, and
\* none after a Grounded call that returned.
C1_AtMostOneFallback ==
    /\ Len(calls) <= 2
    /\ pc \in {"cooldown", "fallback", "layout", "commit"} => Len(calls) >= 1
    /\ Len(calls) >= 1 => calls[1].prompt = GroundingPrompt
    /\ Len(calls) = 2 => calls[2].prompt = FreePrompt /\ calls[1].outcome # "ok"
    /\ OcrStepOver => (Len(calls) = 2 <=> calls[1].outcome # "ok")

C1_Witness == pc = "commit" /\ BothFailed /\ calls[1].outcome = "Timeout"

\* C2: when both attempts of a page fail, the page is committed with its
\* background image and no text line, no error leaves the iteration, and the
\* next source page is processed.
C2_BothFailedGivesEmptyPage ==
    BothFailed =>
        /\ pc \in {"layout", "commit", "loop", "done"}
        /\ text_obj = << >>
        /\ result.returned => result.value \in {"_ocr.pdf", "cannot write"}
        /\ pc \in {"loop", "done"} =>
              /\ Len(out_pages) = calls[1].page
              /\ out_pages[calls[1].page].src = calls[1].page
              /\ out_pages[calls[1].page].image
              /\ out_pages[calls[1].page].lines = 0
        /\ (pc = "loop" /\ page_num < total_pages) => ENABLED PageStart

C2_Witness ==
    /\ BothFailed
    /\ pc = "loop"
    /\ page_num < total_pages
    /\ out_pages[page_num].lines = 0

\* C3 (as claimed): process_pdf fails only when the source cannot be opened or
\* the file cannot be written, whatever the OCR calls return or raise.
C3_OnlyIoFailures ==
    (result.returned /\ ~result.ok) => result.value \in {"cannot open", "cannot write"}

\* C4: pages are committed in source order without gaps: the output holds one
\* page per finished iteration, page j built from source page j, and a
\* successful run has one output page per input page.
C4_PagesInSourceOrder ==
    /\ Len(out_pages) = page_num
    /\ \A j \in 1..Len(out_pages) : out_pages[j].src = j
    /\ pc \in {"grounded", "cooldown", "fallback", "layout", "commit"}
          => page_num < total_pages
    /\ result.ok => Len(out_pages) = total_pages /\ saved

C4_Witness ==
    /\ result.ok
    /\ Len(out_pages) = 2
    /\ out_pages[1].lines = 0
    /\ out_pages[2].lines > 0

\* C8: the Fallback call starts only after the cooldown has been slept and the
\* failure was reported, with the free-text prompt and a timeout longer than
\* the Grounded one, whatever the Grounded error was.
C8_FallbackAfterCooldown ==
    /\ pc = "fallback" => slept >= 3 /\ GroundedFailed
    /\ Len(calls) = 2 =>
          /\ calls[2].after_sleep >= 3
          /\ calls[2].after_sleep > calls[1].after_sleep
          /\ has_callback => calls[2].notices > calls[1].notices
          /\ calls[2].prompt = FreePrompt
          /\ calls[2].prompt # calls[1].prompt
          /\ calls[2].timeout > calls[1].timeout

C8_Witness ==
    /\ Len(calls) = 2
    /\ calls[1].outcome = "Error"
    /\ calls[2].outcome = "ok"
    /\ has_callback

\* C9 (as claimed): a Grounded call that returned gives a per-region layout
\* (no text when there is no region); the page-wide layout is used only after
\* a Fallback call that returned non-blank text without regions.
C9_PageLayoutOnlyWhenDegraded ==
    layout = "page" =>
        /\ Len(calls) = 2
        /\ calls[2].outcome = "ok"
        /\ ocr_data = << >>
        /\ Strip(ocr_text_raw) # << >>

(***************************************************************************)
(* Properties of perform_ocr (specification SpecOcr).                      *)
(***************************************************************************)
\* the k characters ending at position e of buf repeat the k before them,
\* n - 1 times over: a substring of length k, n times in a row, ends at e
RepeatEndsAt(buf, k, n, e) ==
    /\ e <= Len(buf)
    /\ e >= n * k
    /\ \A i \in (e - (n - 1) * k + 1)..e : buf[i] = buf[i - k]

\* some substring of length 1..10 stands 15 times in a row somewhere in buf
RepeatInWindow(buf) ==
    \E k \in 1..10 : \E e \in (15 * k)..Len(buf) : RepeatEndsAt(buf, k, 15, e)

\* such a repeat ends the buffer
RepeatAtEnd(buf) ==
    \E k \in 1..10 : RepeatEndsAt(buf, k, 15, Len(buf))

Streamed == o_pc \in {"streaming", "returned", "raised"}

\* C5 (as claimed): the detector has triggered exactly when the trailing
\* 200 characters hold a substring of length 1..10 repeated 15 times in a row.
C5_TriggersOnAnyRepeatInWindow ==
    Streamed => (hallucination_detected <=> RepeatInWindow(LastChars(full_text, 200)))

\* C5 (amended): the detector triggers exactly when the trailing 200
\* characters are more than 50 and end with a substring of length 1..10
\* repeated 15 times in a row; it never triggers on a window without a repeat.
C5_TriggersOnRepeatAtEnd ==
    Streamed =>
        /\ recent_buffer = LastChars(full_text, 200)
        /\ hallucination_detected <=>
              (Len(recent_buffer) > 50 /\ RepeatAtEnd(recent_buffer))
        /\ hallucination_detected => RepeatInWindow(LastChars(full_text, 200))
        /\ hallucination_detected <=> o_result.kind = "HallucinationError"

C5_Witness ==
    /\ o_result.kind = "HallucinationError"
    /\ Len(full_text) > 200
    /\ recent_buffer[Len(recent_buffer)] = "."

\* C6 (as claimed): when perform_ocr has returned or raised, the response it
\* received is closed, and no request is posted while an earlier response is
\* open.
C6_ResponseClosedOnEveryExit ==
    /\ o_pc \in {"returned", "raised"} => ~o_open
    /\ o_leaked = 0

\* C7 (as claimed): perform_ocr returns no text after the wall-clock deadline
\* and is not still waiting for a line after it.
C7_HardWallClockDeadline ==
    /\ o_result.kind = "text" => o_elapsed <= o_timeout
    /\ o_pc = "streaming" => o_elapsed <= o_timeout

(***************************************************************************)
(* Properties of parse_response (specification SpecParse).                 *)
(***************************************************************************)
AllWellFormed(segs) == \A i \in 1..Len(segs) : segs[i].kind = "ann"

\* C10: a text of N well-formed announcements parses to N regions in order,
\* region i with the coordinates of announcement i over 1000 and its trimmed
\* content; a region of empty text is returned and adds no text line.
C10_WellFormedRoundTrip ==
    (q_pc = "parsed" /\ AllWellFormed(q_segs)) =>
        /\ Len(q_regions) = Len(q_segs)
        /\ \A i \in 1..Len(q_segs) :
              /\ i <= Len(q_regions)
              /\ q_regions[i].text = q_segs[i].core
              /\ \A c \in 1..4 :
                    q_regions[i].bbox[c] = [num |-> q_segs[i].box[c], den |-> 1000]
              /\ q_regions[i].text = << >> =>
                    RegionLines(q_regions[i], RasterSize.width, RasterSize.height, i) = << >>

C10_Witness ==
    /\ q_pc = "parsed"
    /\ AllWellFormed(q_segs)
    /\ Len(q_regions) = 3
    /\ q_regions[1].text = <<"a", SP, "b">>
    /\ q_regions[2].text = << >>
    /\ q_segs[3].spaced

IsAnnouncement(seg) == seg.kind # "text"

\* the text written from segment i on, up to the next announcement
RECURSIVE SpanUpToAnnouncement(_, _)
SpanUpToAnnouncement(segs, i) ==
    IF i > Len(segs) THEN << >>
    ELSE IF IsAnnouncement(segs[i]) THEN << >>
    ELSE Written(segs[i]) \o SpanUpToAnnouncement(segs, i + 1)

\* the regions the well-formed announcements of segs stand for, in order: the
\* content of each runs to the start of the next announcement of any kind
RECURSIVE RegionsWritten(_, _)
RegionsWritten(segs, i) ==
    IF i > Len(segs) THEN << >>
    ELSE (IF segs[i].kind = "ann"
          THEN <<[bbox |-> <<[num |-> segs[i].box[1], den |-> 1000],
                            [num |-> segs[i].box[2], den |-> 1000],
                            [num |-> segs[i].box[3], den |-> 1000],
                            [num |-> segs[i].box[4], den |-> 1000]>>,
                  text |-> Strip(segs[i].pre \o segs[i].core \o segs[i].post
                                 \o SpanUpToAnnouncement(segs, i + 1))]>>
          ELSE << >>)
         \o RegionsWritten(segs, i + 1)

Malformed(seg) == seg.kind \in {"ann3", "annx"}

\* C11 (as claimed): every returned region has its four coordinates in [0,1],
\* xmin <= xmax and ymin <= ymax.
C11_BboxNormalizedAndOrdered ==
    q_pc = "parsed" =>
        \A i \in 1..Len(q_regions) :
            /\ \A c \in 1..4 : /\ q_regions[i].bbox[c].num >= 0
                               /\ q_regions[i].bbox[c].num <= q_regions[i].bbox[c].den
            /\ q_regions[i].bbox[1].num <= q_regions[i].bbox[3].num
            /\ q_regions[i].bbox[2].num <= q_regions[i].bbox[4].num

\* C12: an announcement whose coordinates are not four numbers gives no region
\* and does not end the parse: the well-formed announcements before and after
\* it are returned in order, and the content of the one before it ends where
\* the malformed announcement starts.
C12_MalformedSkipped ==
    (q_pc = "parsed" /\ \E i \in 1..Len(q_segs) : Malformed(q_segs[i])) =>
        q_regions = RegionsWritten(q_segs, 1)

C12_Witness ==
    /\ q_pc = "parsed"
    /\ Len(q_segs) = 3
    /\ q_segs[1].kind = "ann" /\ q_segs[2].kind = "ann3" /\ q_segs[3].kind = "ann"
    /\ Len(q_regions) = 2
    /\ q_regions[1].text = <<"a", SP, "b">>
    /\ q_regions[2].text = <<"c">>

\* C13: parse_response never raises, and a text written without any
\* announcement parses to the empty sequence.
C13_NeverRaises ==
    /\ q_pc # "raised"
    /\ (q_pc = "parsed" /\ \A i \in 1..Len(q_segs) : ~IsAnnouncement(q_segs[i]))
          => q_regions = << >>

C13_Witness ==
    /\ q_pc = "parsed"
    /\ Len(q_segs) = 3
    /\ q_segs[1].kind = "text" /\ q_segs[2].kind = "annx" /\ q_segs[3].kind = "text"
    /\ q_regions = << >>

(***************************************************************************)
(* Properties of the layout of a region (specification SpecFont).          *)
(***************************************************************************)
\* the steps of SpecFont end where FontSearch and RegionLines do
FontSearchAgrees ==
    f_pc = "rendered" =>
        LET r == FontSearch(f_item.text, BoxWidth(f_item, f_img.width),
                            BoxHeight(f_item, f_img.height))
        IN  /\ r.font_size = f_font_size
            /\ r.final_lines = f_final_lines
            /\ r.shrinks = f_shrinks
            /\ f_drawn = RegionLines(f_item, f_img.width, f_img.height, 1)

\* C14 (as claimed): the search shrinks the size at most 5 times and the size
\* handed to rendering is at least 4.
C14_AtMostFiveShrinksAndFloor ==
    /\ f_shrinks <= 5
    /\ f_iter <= 5
    /\ f_pc \in {"picked", "rendered"} => f_font_size >= 4000

\* C15 (as claimed): an iteration accepts exactly when numLines * fontSize *
\* 1.2 is at most boxHeight * 1.2.
C15_AcceptsWithinBoxTolerance ==
    f_last.tested =>
        (f_last.accepted <=>
            f_last.lines * f_last.font_size * 12 <= 12 * BoxHeight(f_item, f_img.height))

\* C15 (amended): an iteration accepts exactly when numLines * fontSize * 1.2
\* is at most boxHeight + 0.2 * fontSize; otherwise the size is multiplied by
\* 0.85, and the search goes on with it unless it fell below 4 (then it is 4,
\* untested) or five iterations are over.
C15_AcceptsWithinLeading ==
    f_last.tested =>
        /\ f_last.accepted <=>
              f_last.lines * f_last.font_size * 12
                  <= 10 * BoxHeight(f_item, f_img.height) + 2 * f_last.font_size
        /\ f_last.accepted => f_font_size = f_last.font_size /\ f_pc \in {"picked", "rendered"}
        /\ ~f_last.accepted =>
              /\ f_font_size = MaxOf((f_last.font_size * 85) \div 100, 4000)
              /\ f_pc = "loop" <=>
                    ((f_last.font_size * 85) \div 100 >= 4000 /\ f_iter < 5)

C15_Witness ==
    /\ f_pc = "rendered"
    /\ f_iter >= 2
    /\ f_shrinks = f_iter - 1
    /\ f_last.accepted
    /\ f_last.lines >= 2

(***************************************************************************)
(* Properties of process_pdf, continued (specification Spec).              *)
(***************************************************************************)
Area(image) == image.width * image.height

\* a page has begun: its images were listed and its background chosen
PageBegun == img # NoImage

\* C16: an embedded image higher than 1000 pixels, the other embedded images
\* being smaller (in area) than it, is the background; when no embedded image
\* is higher than 1000 pixels, or there is none, the background is the page
\* rendered at 300 DPI; the committed page has the size of its background.
C16_ImageSourcing ==
    PageBegun =>
        /\ \A k \in 1..Len(page_img_list) :
              (/\ page_img_list[k].height > 1000
               /\ \A j \in 1..Len(page_img_list) :
                     j # k => Area(page_img_list[j]) < Area(page_img_list[k]))
              => img = [width |-> page_img_list[k].width,
                        height |-> page_img_list[k].height, native |-> TRUE]
        /\ (\A k \in 1..Len(page_img_list) : page_img_list[k].height <= 1000)
              => img = [width |-> 2550, height |-> 3300, native |-> FALSE]
        /\ (pc = "loop" /\ page_num > 0) =>
              /\ out_pages[page_num].width = img.width
              /\ out_pages[page_num].height = img.height
              /\ out_pages[page_num].image

C16_Witness ==
    /\ pc = "loop"
    /\ page_num = 2
    /\ page_img_list = <<[width |-> 300, height |-> 200], [width |-> 2000, height |-> 1500]>>
    /\ out_pages[2].width = 2000 /\ out_pages[2].height = 1500
    /\ out_pages[1].width = 2550 /\ out_pages[1].height = 3300

\* C17 (as claimed): once the item is cancelled, the page in flight is not
\* committed: no showPage happens while the flag is set.
C17_CancelledPageNotCommitted ==
    [][(is_cancelled /\ pc = "commit") => out_pages' = out_pages]_vars

InPage == pc \in {"grounded", "cooldown", "fallback", "layout", "commit"}

PageCall(n) == [current |-> n, total |-> total_pages, kind |-> "page"]

\* C18 (as claimed): when the document completes, the last call of the
\* callback is one made after the last page was committed.
C18_FinalCallOnCompletion ==
    (has_callback /\ result.ok) =>
        progress[Len(progress)].kind
            \notin {"opening", "page", "hallucination", "primary_failed", "fallback_failed"}

\* C18 (amended): with a callback, the first call (0, 0) comes before the
\* source is opened; each page begins with one call (page, total), made before
\* its first perform_ocr call, page after page; a failed Grounded call and a
\* failed Fallback call are each followed by one call for that page; and no
\* call is made after the last page: the last call of a completed document is
\* the last page's.  Without a callback nothing is called.
C18_ProgressCalls ==
    /\ ~has_callback => progress = << >>
    /\ has_callback =>
          /\ pc # "start" => progress # << >>
          /\ (pc # "start" /\ ~PageBegun) =>
                progress = <<[current |-> 0, total |-> 0, kind |-> "opening"]>>
          /\ InPage => progress[1] = PageCall(Len(out_pages) + 1)
          /\ (pc = "loop" /\ page_num > 0) => progress[1] = PageCall(page_num)
          /\ calls # << >> => calls[1].notices = 1
          /\ PageBegun =>
                /\ Len(progress) = 1 + (IF GroundedFailed THEN 1 ELSE 0)
                                      + (IF BothFailed THEN 1 ELSE 0)
                /\ \A k \in 1..Len(progress) : progress[k].current = progress[1].current
                /\ \A k \in 1..Len(progress) : progress[k].total = total_pages
                /\ GroundedFailed => progress[2].kind = GroundedNotice(calls[1].outcome)
                /\ BothFailed => progress[3].kind = "fallback_failed"
          /\ result.ok =>
                /\ progress[1] = PageCall(total_pages)
                /\ progress[Len(progress)].kind
                      \in {"page", "hallucination", "primary_failed", "fallback_failed"}

C18_Witness ==
    /\ has_callback
    /\ result.ok
    /\ total_pages = 2
    /\ Len(progress) = 3
    /\ progress[2].kind = "hallucination"

\* C20 (as claimed): a failed process_pdf returns a reason and leaves no file
\* at the output path, and a file is there only once every page was committed
\* and the document saved.
C20_FailureLeavesNoArtifact ==
    /\ (result.returned /\ ~result.ok) => (result.value # "" /\ out_file = "none")
    /\ out_file # "none" => (pc = "done" /\ Len(out_pages) = total_pages)

(***************************************************************************)
(* Properties of check_connection (specification SpecConn).                *)
(***************************************************************************)
Listed(answer) == answer.kind = "response" /\ answer.status = 200

\* C19: check_connection succeeds exactly when the catalog was answered (200)
\* and a listed name holds the target; it then returns the first such name,
\* which is the configured model and the model of every perform_ocr call begun
\* after it; a failed check gives a reason and leaves the model as it was.
C19_CheckConnection ==
    c_result.checked =>
        /\ c_result.ok <=>
              (/\ Listed(c_result.answer)
               /\ \E i \in 1..Len(c_result.answer.models) :
                     Contains(c_result.answer.models[i], Target))
        /\ c_result.ok =>
              /\ \E i \in 1..Len(c_result.answer.models) :
                    /\ c_result.model = c_result.answer.models[i]
                    /\ Contains(c_result.answer.models[i], Target)
                    /\ \A j \in 1..(i - 1) : ~Contains(c_result.answer.models[j], Target)
              /\ h_model = c_result.model
              /\ o_after_check => o_model = c_result.model
        /\ ~c_result.ok =>
              /\ c_result.reason # ""
              /\ h_model = c_result.before
              /\ o_after_check => o_model = c_result.before

C19_Witness ==
    /\ c_checks = 2
    /\ ~c_result.ok
    /\ c_result.answer.kind = "unreachable"
    /\ h_model = <<"user", "/", "deepseek", "-", "ocr">>
    /\ o_after_check
    /\ o_model = h_model
    /\ o_calls = 2

(***************************************************************************)
(* C21: once the pattern is detected no further line is read in that call, *)
(* the call has raised HallucinationError (not the timeout error) and      *)
(* returns no text; and no line is read in a call after a chunk that       *)
(* carried the completion flag.                                            *)
(***************************************************************************)
C21_NoReadAfterDetectionOrDone ==
    [][ /\ hallucination_detected' =>
            /\ o_pc' = "raised"
            /\ o_result' = [kind |-> "HallucinationError", text |-> << >>]
            /\ ~o_open'
        /\ (hallucination_detected \/ o_done) /\ o_calls' = o_calls =>
            /\ o_lines' = o_lines
            /\ full_text' = full_text
            /\ o_result' = o_result ]_vars

\* the pattern was detected in a chunk that was not the last line the stream
\* could deliver, after an earlier chunk had been kept
C21_Witness ==
    /\ hallucination_detected
    /\ o_pc = "raised"
    /\ 1 < o_lines /\ o_lines < MaxLines
    /\ Len(full_text) > Len(recent_buffer)

(***************************************************************************)
(* C22: the lines of a region with text are emitted at x = xmin * W, the   *)
(* k-th at baseline boxTop - fontSize - (k - 1) * fontSize * 1.2; a line   *)
(* is emitted as long as its baseline is not below                         *)
(* boxBottom - fontSize * 0.5 and none is emitted from the first line      *)
(* below it on, so every emitted baseline lies between                     *)
(* boxBottom - fontSize * 0.5 and boxTop - fontSize.                       *)
(***************************************************************************)
C22_RegionBaselines ==
    f_pc = "rendered" =>
        LET x_pos == Scaled(f_item.bbox[1], f_img.width)
            box_bottom == Scaled(OneMinus(f_item.bbox[4]), f_img.height)
            box_top == box_bottom + BoxHeight(f_item, f_img.height)
            Baseline(k) == box_top - f_font_size - (k - 1) * ((f_font_size * 12) \div 10)
            Allowed(y) == 2 * y >= 2 * box_bottom - f_font_size
        IN  /\ Len(f_drawn) <= Len(f_final_lines)
            /\ \A k \in 1..Len(f_drawn) :
                  /\ f_drawn[k].x = x_pos
                  /\ f_drawn[k].font_size = f_font_size
                  /\ f_drawn[k].y = Baseline(k)
                  /\ Allowed(f_drawn[k].y)
                  /\ f_drawn[k].y <= box_top - f_font_size
            /\ Len(f_drawn) < Len(f_final_lines) => ~Allowed(Baseline(Len(f_drawn) + 1))

\* several lines were emitted and wrapped lines remained
C22_Witness ==
    /\ f_pc = "rendered"
    /\ Len(f_drawn) >= 2
    /\ Len(f_drawn) < Len(f_final_lines)

(***************************************************************************)
(* C24: the font size and the lines handed to rendering passed the height  *)
(* test of line 247 at that very size, or the size is the floor 4; no      *)
(* region is rendered at a size that a shrink produced and no iteration    *)
(* tested.                                                                 *)
(***************************************************************************)
C24_RenderedSizeWasTested ==
    f_pc = "rendered" =>
        \/ f_font_size = 4000
        \/ /\ f_last.tested
           /\ f_last.accepted
           /\ f_last.font_size = f_font_size
           /\ f_last.lines = Len(f_final_lines)

\* the statements of SpecPage and the operator PageLayout emit the same lines
PageLayoutAgrees ==
    l_pc = "done" =>
        l_drawn = PageLayout(SplitBlocks(Strip(l_text)), l_img.width,
                             (l_img.height - 20) * 1000, 1)

(***************************************************************************)
(* C23: the page-wide layout emits its lines in block order at x = 20,     *)
(* the first at baseline pageHeight - 20 and each below the one before;    *)
(* every emitted baseline lies in [20, pageHeight - 20], and once the      *)
(* cursor is below 20 no line of any later block is emitted.               *)
(***************************************************************************)
C23_PageLayoutBaselines ==
    [][ /\ \A k \in 1..Len(l_drawn') :
              /\ l_drawn'[k].x = 20000
              /\ l_drawn'[k].y >= 20000
              /\ l_drawn'[k].y <= (l_img.height - 20) * 1000
              /\ k = 1 => l_drawn'[k].y = (l_img.height - 20) * 1000
              /\ k > 1 => /\ l_drawn'[k].y < l_drawn'[k - 1].y
                          /\ l_drawn'[k].src >= l_drawn'[k - 1].src
        /\ l_current_y < 20000 => l_drawn' = l_drawn ]_vars

\* lines of several blocks were emitted, the bottom of the page was reached
\* and a later block is still to come
C23_Witness ==
    /\ l_pc = "blocks"
    /\ l_blocks # << >>
    /\ l_current_y < 20000
    /\ Len(l_drawn) >= 2
    /\ l_drawn[Len(l_drawn)].src > l_drawn[1].src

(***************************************************************************)
(* C25: at every moment at most one thread runs _process_thread,           *)
(* is_processing is true while one runs, and at most one perform_ocr call  *)
(* of the pipeline is in flight.                                           *)
(***************************************************************************)
C25_AtMostOneWorker ==
    /\ Cardinality(u_threads) <= 1
    /\ u_threads # {} => is_processing
    /\ Cardinality({ t \in u_threads : t.pc = "request" }) <= 1
    /\ \A t \in u_threads : t.item = current_item

\* a request is in flight for the second document started, cancelled by the
\* user, while another document waits
C25_Witness ==
    /\ \E t \in u_threads : t.pc = "request" /\ t.item \in u_cancelled
    /\ Len(u_started) = 2
    /\ Len(u_finished) = 1
    /\ queue # << >>

\* the ids of a sequence rise: the order of adding, and no id twice
Rising(q) == \A i, j \in 1..Len(q) : i < j => q[i] < q[j]

(***************************************************************************)
(* C26: documents are started in the order they were added and none        *)
(* twice; a document removed while waiting leaves the queue and is never   *)
(* started, and its removal changes neither the active document nor the    *)
(* order of the others; removing the active document marks it cancelled    *)
(* and leaves the queue as it is.                                          *)
(***************************************************************************)
C26_FifoAndRemoval ==
    [][ /\ Rising(u_started' \o queue')
        /\ u_removed' \cap (Elements(u_started') \cup Elements(queue')) = {}
        /\ Elements(u_started') \cup Elements(queue') \cup u_removed' = 0..(item_counter' - 1)
        /\ u_removed' # u_removed =>
              /\ \E item_id \in Elements(queue) :
                    /\ u_removed' = u_removed \cup {item_id}
                    /\ queue' = Without(queue, item_id)
              /\ UNCHANGED <<current_item, is_processing, u_threads, u_events, u_started,
                             u_cancelled>>
        /\ u_cancelled' # u_cancelled =>
              /\ u_cancelled' = u_cancelled \cup {current_item}
              /\ current_item # NoCurrent
              /\ UNCHANGED <<queue, current_item, is_processing, u_threads, u_events,
                             u_started, u_removed>> ]_vars

\* the first and the third document added were started, the second was
\* removed while it waited, and the active one was cancelled
C26_Witness ==
    /\ u_started = <<0, 2>>
    /\ u_removed = {1}
    /\ current_item = 2
    /\ 2 \in u_cancelled

Finished(item_id) == \E k \in 1..Len(u_finished) : u_finished[k].item = item_id

(***************************************************************************)
(* C27: with the worker thread and the event loop scheduled fairly, every  *)
(* document in the queue is started unless it is removed while waiting,    *)
(* every document started is finished, each finish starts the next         *)
(* waiting document, and when the queue is empty and no worker runs        *)
(* is_processing becomes false and current_item None.                      *)
(***************************************************************************)
C27_EveryDocumentFinishes ==
    /\ \A item_id \in 0..(MaxItems - 1) :
          /\ (item_id \in Elements(queue)) ~>
                 (item_id \in u_removed \/ item_id \in Elements(u_started))
          /\ (item_id \in Elements(u_started)) ~> Finished(item_id)
    /\ [][ (u_finished' # u_finished /\ queue # << >>) =>
              /\ u_started' = Append(u_started, Head(queue))
              /\ current_item' = Head(queue)
              /\ is_processing' ]_vars
    /\ (queue = << >> /\ u_threads = {}) ~> (~is_processing /\ current_item = NoCurrent)

\* three documents have finished, one done, one failed and one cancelled,
\* and the window is idle again
C27_Witness ==
    /\ Len(u_finished) = 3
    /\ { u_finished[k].outcome : k \in 1..Len(u_finished) } = {"done", "error", "cancelled"}
    /\ queue = << >>
    /\ u_threads = {}
    /\ ~is_processing
    /\ current_item = NoCurrent

====
